---- MODULE Spec2Model ----
(***************************************************************************)
(* Model of the Cap'n Web RPC session core of gocapnweb (src/rpc.go):      *)
(* SessionData, HandleMessage, handlePush, handlePull,                     *)
(* resolvePipelineReferences and traversePath.                             *)
(*                                                                         *)
(* One SessionData is shared by the handler goroutines in Threads.  Every  *)
(* action is one stretch of handler code that touches the session tables   *)
(* under one hold of SessionData.mu, or one call of Target.Dispatch (made  *)
(* with the mutex released).  The recursion of resolvePipelineReferences   *)
(* is kept as an explicit stack of frames per goroutine.                   *)
(***************************************************************************)
EXTENDS Integers, Sequences, FiniteSets, TLC

VARIABLES
    NextExportID,       \* SessionData.NextExportID
    PendingOperations,  \* SessionData.PendingOperations : id -> Operation
    PendingResults,     \* SessionData.PendingResults    : id -> value
    Target,             \* SessionData.Target: which dispatcher the session has
    th,                 \* per goroutine: position inside HandleMessage
    crashed,            \* the process died of a goroutine stack overflow
    nmsg,               \* number of messages handed to HandleMessage so far
    pushLog,            \* history: body and export id (0 = none) of the n-th push
    everKeys,           \* history: every id that was ever a key of a table
    ndisp,              \* history: number of Target.Dispatch calls per export id
    log,                \* history: the last completed messages, oldest first
    walk,               \* one walk of a reference's path through a stored result
    mu,                 \* SessionData.mu: the session's sync.RWMutex
    lk,                 \* per goroutine: its position among the lock operations
    conn,               \* the connection (or HTTP request) whose message is handled
    sessionOf,          \* connection -> the SessionData its handler was given
    parked,             \* the SessionData of the connections that are not being served
    batch,              \* the HTTP POST handler: lines to read, responses collected
    methods,            \* BaseRpcTarget.methods: name -> registered handler
    regs,               \* history: the calls of BaseRpcTarget.Method, oldest first
    file,               \* the static file handler: the request and its answer
    subscribers,        \* MetricsServer.subscribers: subscription id -> Subscription
    metricsBuffer,      \* MetricsServer.metricsBuffer: subscription id -> buffered updates
    now,                \* the clock in seconds: the number of metrics ticks so far
    served              \* history: the last call of a MetricsServer method and its result

vars == <<NextExportID, PendingOperations, PendingResults, Target, th, crashed,
          nmsg, pushLog, everKeys, ndisp, log, walk, mu, lk,
          conn, sessionOf, parked, batch, methods, regs, file,
          subscribers, metricsBuffer, now, served>>

(* The variables of one session's handlers, and the ones they never touch. *)
session == <<NextExportID, PendingOperations, PendingResults, Target, th, crashed,
             nmsg, pushLog, everKeys, ndisp, log>>

server == <<conn, sessionOf, parked>>

base == <<methods, regs>>

metrics == <<subscribers, metricsBuffer, now, served>>

apart == <<walk, mu, lk, server, batch, base, file, metrics>>

----------------------------------------------------------------------------
(* Bounds of the model.  MaxDepth exceeds MaxPush, so that a serial pull   *)
(* reaches MaxDepth frames only when an operation depends on itself, which *)
(* is when the recursion of the code has no end.                           *)

MaxMsgs == 4        \* messages handled in one session
MaxPush == 2        \* push messages that allocate an export id
MaxDepth == 3       \* frames of resolvePipelineReferences before the stack overflows
MaxConcMsgs == 4    \* messages handled in one session by concurrent handlers
LogWindow == 2      \* completed messages kept in the history

Threads == {1, 2}

----------------------------------------------------------------------------
(* JSON value trees as encoding/json decodes them into interface{}.        *)

Null == [t |-> "null"]
Num(n) == [t |-> "num", n |-> n]
Str(s) == [t |-> "str", s |-> s]
List(l) == [t |-> "list", l |-> l]
Map(m) == [t |-> "map", m |-> m]

(* (value, error) results of Go functions.                                 *)
Ok(v) == [ok |-> TRUE, v |-> v, err |-> ""]
Err(e) == [ok |-> FALSE, v |-> Null, err |-> e]

(* fmt's %d for the export ids of the model.                               *)
IdStr(i) ==
    CASE i = 0 -> "0" [] i = 1 -> "1" [] i = 2 -> "2" [] i = 3 -> "3"
      [] i = 4 -> "4" [] i = 5 -> "5" [] OTHER -> "n"

NoResponse == [t |-> "none"]

----------------------------------------------------------------------------
(* traversePath                                                            *)

RECURSIVE traversePath(_, _)
traversePath(current, path) ==
    IF path = <<>> THEN Ok(current)
    ELSE LET key == Head(path) IN
         CASE key.t = "str" ->
                IF current.t = "map"
                THEN traversePath(IF key.s \in DOMAIN current.m
                                  THEN current.m[key.s] ELSE Null,
                                  Tail(path))
                ELSE Err("cannot traverse string key on non-object")
           [] key.t = "num" ->
                IF current.t = "list"
                THEN IF key.n < 0 \/ key.n >= Len(current.l)
                     THEN Err("array index out of bounds")
                     ELSE traversePath(current.l[key.n + 1], Tail(path))
                ELSE Err("cannot traverse numeric key on non-array")
           [] OTHER -> Err("invalid path key type")

----------------------------------------------------------------------------
(* resolvePipelineReferences: the shape tests and the tree walk.           *)

(* rpc.go:207-209: a list ["pipeline", <number>, ...].                     *)
IsPipelineRef(v) ==
    /\ v.t = "list"
    /\ Len(v.l) >= 2
    /\ v.l[1].t = "str" /\ v.l[1].s = "pipeline"
    /\ v.l[2].t = "num"

\* Mutant: only the first selector of the path is applied.
WalkRefPath_FirstKey(v, result) ==
    IF Len(v.l) >= 3 /\ v.l[3].t = "list" /\ v.l[3].l # <<>>
    THEN traversePath(result, <<v.l[3].l[1]>>)
    ELSE Ok(result)

(* rpc.go:218-223 and 258-263: the path is walked only when v[2] is a list. *)
WalkRefPath(v, result) ==
    IF Len(v.l) >= 3 /\ v.l[3].t = "list"
    THEN traversePath(result, v.l[3].l)
    ELSE Ok(result)

(* A position in a tree is a sequence of selectors, [i |-> n] into a list   *)
(* and [k |-> s] into a mapping.                                           *)
Prefixed(sel, positions) ==
    [n \in 1..Len(positions) |-> <<sel>> \o positions[n]]

(* The orders in which one call of resolvePipelineReferences can meet the  *)
(* pipeline references of a tree: list elements in index order             *)
(* (rpc.go:273-281), mapping values in the order of Go's map iteration,    *)
(* which is any order (rpc.go:285-292); a reference is not descended into. *)
RECURSIVE RefOrders(_), ListOrders(_, _), MapOrders(_, _)
RefOrders(v) ==
    IF IsPipelineRef(v) THEN {<< <<>> >>}
    ELSE IF v.t = "list" THEN ListOrders(v.l, 1)
    ELSE IF v.t = "map" THEN MapOrders(v.m, DOMAIN v.m)
    ELSE {<<>>}
ListOrders(l, i) ==
    IF i > Len(l) THEN {<<>>}
    ELSE {Prefixed([i |-> i], a) \o b :
              a \in RefOrders(l[i]), b \in ListOrders(l, i + 1)}
MapOrders(m, keys) ==
    IF keys = {} THEN {<<>>}
    ELSE UNION {{Prefixed([k |-> key], a) \o b :
                     a \in RefOrders(m[key]), b \in MapOrders(m, keys \ {key})} :
                key \in keys}

RECURSIVE NodeAt(_, _)
NodeAt(v, pos) ==
    IF pos = <<>> THEN v
    ELSE IF v.t = "list" THEN NodeAt(v.l[Head(pos).i], Tail(pos))
    ELSE NodeAt(v.m[Head(pos).k], Tail(pos))

\* Mutant: the resolved value is not written into the copy.
SetAt_Skipped(v, pos, new) == v

(* resolved[i] = resolvedElem / resolved[key] = resolvedVal along a position. *)
RECURSIVE SetAt(_, _, _)
SetAt(v, pos, new) ==
    IF pos = <<>> THEN new
    ELSE IF v.t = "list"
    THEN List([v.l EXCEPT ![Head(pos).i] = SetAt(v.l[Head(pos).i], Tail(pos), new)])
    ELSE Map([v.m EXCEPT ![Head(pos).k] = SetAt(v.m[Head(pos).k], Tail(pos), new)])

----------------------------------------------------------------------------
(* Go values returned by a handler and their JSON encoding.  A handler may  *)
(* return a value of a static Go type: [t |-> "strs"] is a []string and     *)
(* [t |-> "struct"] a struct with json tags; a type assertion to            *)
(* []interface{} or map[string]interface{} fails on them, and json.Marshal  *)
(* encodes them as a JSON list and a JSON object.                           *)

Strs(l) == [t |-> "strs", ss |-> l]
Struct(m) == [t |-> "struct", m |-> m]

RECURSIVE jsonMarshal(_)
jsonMarshal(v) ==
    CASE v.t = "list" -> List([n \in 1..Len(v.l) |-> jsonMarshal(v.l[n])])
      [] v.t = "map" -> Map([k \in DOMAIN v.m |-> jsonMarshal(v.m[k])])
      [] v.t = "strs" -> List([n \in 1..Len(v.ss) |-> Str(v.ss[n])])
      [] v.t = "struct" -> Map([k \in DOMAIN v.m |-> jsonMarshal(v.m[k])])
      [] OTHER -> v

----------------------------------------------------------------------------
(* The messages and the dispatcher outcomes of the model.                  *)

PipelineRef(j) == List(<<Str("pipeline"), Num(j)>>)
PipelineRefPath(j, path) == List(<<Str("pipeline"), Num(j), List(path)>>)
PipelineCall(method, args) ==
    List(<<Str("pipeline"), Num(0), List(<<Str(method)>>), args>>)

PushBodies ==
    { List(<<Str("pipeline"), Num(0), List(<<Str("get")>>)>>),
      PipelineCall("echo", List(<<PipelineRefPath(1, <<Str("id")>>)>>)),
      PipelineCall("pair", List(<<PipelineRef(1), PipelineRefPath(1, <<Num(1)>>)>>)),
      PipelineCall("echo", List(<<PipelineRef(2)>>)),
      PipelineCall("merge", Map([a |-> PipelineRef(2), b |-> PipelineRef(3)])),
      List(<<Str("subscribe"), Num(0)>>),
      Str("x") }

PullIds == 1..(MaxPush + 1)

MsgsOf(bodies) ==
    {List(<<Str("push"), b>>) : b \in bodies}
    \cup {List(<<Str("pull"), Num(i)>>) : i \in PullIds}
    \cup {List(<<Str("release"), Num(1), Num(1)>>), List(<<Str("abort"), Str("bye")>>)}

Msgs == MsgsOf(PushBodies)

(* The messages and targets of the sessions with concurrent handlers: the   *)
(* pushes whose args are lists, and the targets of the examples.            *)
ConcBodies == {b \in PushBodies : b.t # "list" \/ Len(b.l) < 4 \/ b.l[4].t = "list"}
ConcMsgs == MsgsOf(ConcBodies)
ConcTargets == {"handlers", "UserServer"}

(* The targets of the model: "handlers" returns values of the dynamic JSON *)
(* types (map[string]interface{}, []interface{}), "UserServer" returns     *)
(* values of static Go types as the batch-pipelining example does (a User  *)
(* struct, a []string), "CustomServer" is a Dispatch written by the user,  *)
(* whose lists have whatever content the application holds: lists that     *)
(* begin with "error", and data of the shape of a pipeline reference.      *)
Targets == {"handlers", "UserServer", "CustomServer"}

DispatchResults(target) ==
    CASE target = "handlers" ->
           { Map([id |-> Str("u_1")]),
             List(<<Num(10), Num(20)>>) }
      [] target = "UserServer" ->
           { Struct([id |-> Str("u_1")]),
             Strs(<<"n1", "n2">>) }
      [] OTHER ->
           { List(<<Str("error"), Str("boom")>>),
             List(<<Str("error")>>),
             List(<<Str("pipeline"), Num(1)>>) }

(* Target.Dispatch is user code: any result, or an error.                  *)
DispatchOutcomes == {Ok(r) : r \in DispatchResults(Target)} \cup {Err("invalid session")}

(* The handlers registered with a BaseRpcTarget, and what they return.     *)
Handlers == {"h1", "h2"}

HandlerOutcomes(handler) == {Ok(Str(handler))}

\* Mutant: a name without a handler is answered with an empty result.
BaseDispatch_Lenient(method) ==
    IF method \in DOMAIN methods THEN HandlerOutcomes(methods[method]) ELSE {Ok(Null)}

(* rpc.go:43-53: BaseRpcTarget.Dispatch *)
BaseDispatch(method) ==
    IF method \in DOMAIN methods
    THEN HandlerOutcomes(methods[method])
    ELSE {Err("method not found: " \o method)}

(* Target.Dispatch(method, args) *)
Dispatch(method) ==
    IF Target = "BaseRpcTarget" THEN BaseDispatch(method) ELSE DispatchOutcomes

----------------------------------------------------------------------------
(* Session state helpers.                                                  *)

NoEntries == [x \in {} |-> Null]
MapPut(f, k, v) == [x \in DOMAIN f \cup {k} |-> IF x = k THEN v ELSE f[x]]
MapDelete(f, k) == [x \in DOMAIN f \ {k} |-> f[x]]

(* One more call of Target.Dispatch for the operation id.                  *)
Counted(id) ==
    MapPut(ndisp, id, IF id \in DOMAIN ndisp THEN ndisp[id] + 1 ELSE 1)

Snapshot == [ops |-> PendingOperations, res |-> PendingResults, next |-> NextExportID]

Idle ==
    [pc |-> "idle", msg |-> Null, exportID |-> 0, frames |-> <<>>,
     result |-> Ok(Null), pre |-> [ops |-> NoEntries, res |-> NoEntries, next |-> 0],
     calls |-> <<>>]

Keep(seq) == IF Len(seq) > LogWindow THEN Tail(seq) ELSE seq

(* createErrorResponse, and the reject built at rpc.go:401-403.            *)
createErrorResponse(exportID, errorType, message) ==
    List(<<Str("reject"), Num(exportID),
           List(<<Str("error"), Str(errorType), Str(message)>>)>>)

\* Mutant: the error test looks at the first element only.
IsErrorValue_NoLength(result) ==
    /\ result.t = "list" /\ Len(result.l) >= 1
    /\ result.l[1].t = "str" /\ result.l[1].s = "error"

\* Mutant: a stored list goes out without the escaping list around it.
CachedResponse_Bare(exportID, result) ==
    IF result.t = "list" /\ Len(result.l) >= 2
       /\ result.l[1].t = "str" /\ result.l[1].s = "error"
    THEN List(<<Str("reject"), Num(exportID), result>>)
    ELSE List(<<Str("resolve"), Num(exportID), result>>)

(* rpc.go:340-352 and 393-396: the outbound message for a result.          *)
IsErrorValue(result) ==
    /\ result.t = "list" /\ Len(result.l) >= 2
    /\ result.l[1].t = "str" /\ result.l[1].s = "error"
ResolveResponse(exportID, result) ==
    IF result.t = "list"
    THEN List(<<Str("resolve"), Num(exportID), List(<<result>>)>>)
    ELSE List(<<Str("resolve"), Num(exportID), result>>)
CachedResponse(exportID, result) ==
    IF IsErrorValue(result)
    THEN List(<<Str("reject"), Num(exportID), result>>)
    ELSE ResolveResponse(exportID, result)

MsgTag(m) == m.l[1].s

----------------------------------------------------------------------------
(* Init: NewSessionData (followed by OnOpen on a WebSocket, which sets the  *)
(* same values before the first message is read).                          *)

NewSessionDataOf(targets) ==
    /\ NextExportID = 1
    /\ PendingOperations = NoEntries
    /\ PendingResults = NoEntries
    /\ Target \in targets
    /\ th = [t \in Threads |-> Idle]
    /\ crashed = FALSE
    /\ nmsg = 0
    /\ pushLog = <<>>
    /\ everKeys = {}
    /\ ndisp = [i \in {} |-> 0]
    /\ log = <<>>

NewSessionData == NewSessionDataOf(Targets)

NoWalk == [pc |-> "none", ref |-> Null, result |-> Null, out |-> Ok(Null)]

(* sync.RWMutex zero value: no reader, no writer; no goroutine inside.     *)
Unlocked == [readers |-> 0, writer |-> FALSE]

Outside == [pc |-> "idle", stack |-> <<>>, err |-> FALSE, r |-> 0, w |-> FALSE]

NoLocks == mu = Unlocked /\ lk = [t \in Threads |-> Outside]

(* One connection, served with its own SessionData (server.go:34).        *)
OneConnection == conn = 1 /\ sessionOf = [c \in {1} |-> 1] /\ parked = NoEntries

(* No HTTP request is being served.                                        *)
NoBatch ==
    [pc |-> "none", request |-> <<>>, lines |-> <<>>, line |-> Null, n |-> 0,
     responses |-> <<>>, handled |-> <<>>, status |-> 0, body |-> <<>>]

(* No file request is being served.                                       *)
NoFile == [pc |-> "none", segs |-> <<>>, dir |-> FALSE, status |-> 0, read |-> <<>>]

(* rpc.go:29-33: NewBaseRpcTarget *)
NewBaseRpcTarget == methods = NoEntries /\ regs = <<>>

(* No call of a MetricsServer method has been made.                        *)
NoCall == [op |-> "none", id |-> "", found |-> FALSE]

(* serverpush/main.go:54-71: NewMetricsServer, at second 0 of the clock    *)
NewMetricsServer ==
    /\ subscribers = NoEntries
    /\ metricsBuffer = NoEntries
    /\ now = 0
    /\ served = NoCall

(* Everything but the session: nothing walked, locked, served or           *)
(* registered.                                                             *)
Elsewhere ==
    /\ walk = NoWalk /\ NoLocks /\ OneConnection /\ batch = NoBatch /\ NewBaseRpcTarget
    /\ file = NoFile /\ NewMetricsServer

Init == NewSessionData /\ Elsewhere

(* HandleMessage returns: the response goes out, the goroutine is free.    *)
Return(t, m, pre, calls, out) ==
    /\ th' = [th EXCEPT ![t] = Idle]
    /\ log' = Keep(Append(log, [msg |-> m, out |-> out, pre |-> pre, calls |-> calls]))

Begin(t) == th[t].pc = "idle" /\ ~crashed
At(t, pc) == th[t].pc = pc /\ ~crashed

----------------------------------------------------------------------------
(* handlePush, with the "push" case of HandleMessage.                      *)

(* rpc.go:166, 178-183: the body is a list and a pipeline call.             *)
RecognizedPush(pushData) ==
    /\ pushData.t = "list"
    /\ LET pushArray == pushData.l IN
       /\ Len(pushArray) >= 3
       /\ pushArray[1] = Str("pipeline")
       /\ pushArray[2].t = "num"
       /\ pushArray[3].t = "list" /\ Len(pushArray[3].l) > 0
       /\ pushArray[3].l[1].t = "str"

\* Mutant: a call pushed without args is registered with null args.
PushedOperation_NoDefault(pushArray) ==
    [Method |-> pushArray[3].l[1].s,
     Args |-> IF Len(pushArray) >= 4 THEN pushArray[4] ELSE Null]

PushedOperation(pushArray) ==
    [Method |-> pushArray[3].l[1].s,
     Args |-> IF Len(pushArray) >= 4 THEN pushArray[4] ELSE List(<<>>)]

\* Mutant: the counter is read but not advanced.
AllocateExportID_Stuck(next) == next

(* rpc.go:166-169: only a non-empty list body gets as far as the id counter. *)
AllocatesId(pushData) == pushData.t = "list" /\ Len(pushData.l) > 0

(* rpc.go:176 *)
AllocateExportID(next) == next + 1

\* Mutant: the pushed operation is run when it is pushed.
HandlePush_Eager(t, m) ==
    /\ Begin(t)
    /\ MsgTag(m) = "push"
    /\ NextExportID <= MaxPush
    /\ NextExportID' = AllocateExportID(NextExportID)
    /\ pushLog' = Append(pushLog, [body |-> m.l[2], id |-> NextExportID])
    /\ ndisp' = Counted(NextExportID)
    /\ nmsg' = nmsg + 1
    /\ Return(t, m, Snapshot, <<>>, NoResponse)
    /\ UNCHANGED <<apart, Target, PendingOperations, PendingResults, crashed, everKeys>>

(* rpc.go:108-112 and 165-201: the push is handled in one hold of the      *)
(* write lock.                                                             *)
handlePush(t, m) ==
    /\ Begin(t)
    /\ MsgTag(m) = "push"
    /\ LET pushData == m.l[2]
           exportID == NextExportID
       IN IF Len(m.l) >= 2 /\ AllocatesId(pushData)
          THEN /\ NextExportID' = AllocateExportID(NextExportID)
               /\ pushLog' = Append(pushLog, [body |-> pushData, id |-> exportID])
               /\ IF RecognizedPush(pushData)
                  THEN /\ PendingOperations' =
                              MapPut(PendingOperations, exportID, PushedOperation(pushData.l))
                       /\ everKeys' = everKeys \cup {exportID}
                  ELSE UNCHANGED <<PendingOperations, everKeys>>
          ELSE /\ pushLog' = Append(pushLog, [body |-> pushData, id |-> 0])
               /\ UNCHANGED <<NextExportID, PendingOperations, everKeys>>
    /\ nmsg' = nmsg + 1
    /\ Return(t, m, Snapshot, <<>>, NoResponse)
    /\ UNCHANGED <<apart, Target, PendingResults, crashed, ndisp>>

(* The pushes of a session, up to MaxPush allocated ids.                   *)
HandlePush(t, m) == NextExportID <= MaxPush /\ handlePush(t, m)

(* handleRelease and handleAbort only log.                                 *)
HandleRelease(t, m) ==
    /\ Begin(t)
    /\ MsgTag(m) = "release"
    /\ nmsg' = nmsg + 1
    /\ Return(t, m, Snapshot, <<>>, NoResponse)
    /\ UNCHANGED <<apart, Target, NextExportID, PendingOperations, PendingResults, crashed,
                   pushLog, everKeys, ndisp>>

\* Mutant: an abort tears the session's tables down.
HandleAbort_Reset(t, m) ==
    /\ Begin(t)
    /\ MsgTag(m) = "abort"
    /\ nmsg' = nmsg + 1
    /\ PendingOperations' = NoEntries
    /\ PendingResults' = NoEntries
    /\ Return(t, m, Snapshot, <<>>, NoResponse)
    /\ UNCHANGED <<apart, Target, NextExportID, crashed, pushLog, everKeys, ndisp>>

HandleAbort(t, m) ==
    /\ Begin(t)
    /\ MsgTag(m) = "abort"
    /\ nmsg' = nmsg + 1
    /\ Return(t, m, Snapshot, <<>>, NoResponse)
    /\ UNCHANGED <<apart, Target, NextExportID, PendingOperations, PendingResults, crashed,
                   pushLog, everKeys, ndisp>>

----------------------------------------------------------------------------
(* handlePull and resolvePipelineReferences.                               *)

(* A call of resolvePipelineReferences on the args of operation id: the    *)
(* reference ref that led to it (Null for the pulled operation), the order *)
(* in which the references of the args are met, the next one, and the      *)
(* resolved copy built so far.                                             *)
Frame(id, op, ref, order) ==
    [id |-> id, method |-> op.Method, ref |-> ref, order |-> order, k |-> 1,
     cur |-> op.Args]

Top(t) == th[t].frames[Len(th[t].frames)]

\* Mutant: a failed resolution is reported with the kind of a failed method.
PipelineFailure_Method(t, message) ==
    Return(t, th[t].msg, th[t].pre, th[t].calls,
           jsonMarshal(createErrorResponse(th[t].exportID, "MethodError", message)))

(* The error of a failed resolution goes up through every caller           *)
(* (rpc.go:236-238, 276-278, 288-290) to handlePull (rpc.go:366-368).      *)
PipelineFailure(t, message) ==
    Return(t, th[t].msg, th[t].pre, th[t].calls,
           jsonMarshal(createErrorResponse(th[t].exportID, "PipelineError", message)))

\* Mutant: the reject is built by the helper with another kind.
ExportNotFound_Kind(exportID) ==
    createErrorResponse(exportID, "MethodError", "Export ID not found")

(* rpc.go:400-403 *)
ExportNotFound(exportID) ==
    List(<<Str("reject"), Num(exportID),
           List(<<Str("error"), Str("ExportNotFound"), Str("Export ID not found")>>)>>)

(* rpc.go:329-332, 355-365, 398-403: what the pull finds under the read lock. *)
PullBegin(t, m) ==
    /\ Begin(t)
    /\ MsgTag(m) = "pull"
    /\ nmsg' = nmsg + 1
    /\ LET exportID == m.l[2].n IN
       IF exportID \in DOMAIN PendingResults
       THEN th' = [th EXCEPT ![t] =
                     [Idle EXCEPT !.pc = "cleanup", !.msg = m, !.exportID = exportID,
                                  !.result = Ok(PendingResults[exportID]),
                                  !.pre = Snapshot]]
            /\ UNCHANGED log
       ELSE IF exportID \in DOMAIN PendingOperations
       THEN \E order \in RefOrders(PendingOperations[exportID].Args) :
              th' = [th EXCEPT ![t] =
                       [Idle EXCEPT !.pc = "resolve", !.msg = m, !.exportID = exportID,
                                    !.frames = <<Frame(exportID, PendingOperations[exportID],
                                                       Null, order)>>,
                                    !.pre = Snapshot]]
              /\ UNCHANGED log
       ELSE Return(t, m, Snapshot, <<>>, jsonMarshal(ExportNotFound(exportID)))
    /\ UNCHANGED <<apart, Target, NextExportID, PendingOperations, PendingResults, crashed,
                   pushLog, everKeys, ndisp>>

\* Mutant: the result is cached but the operation stays registered.
CachedOperations_Kept(ops, id) == ops

\* Mutant: the cached result is answered but left in the table.
CleanedResults_Kept(results, exportID) == results

\* Mutant: the operation is removed only when its dispatch succeeded.
CleanedOperations_Kept(ops, exportID) == ops

\* Mutant: the result is answered without being stored.
StoredResults_Dropped(results, exportID, result) == results

\* Mutant: the dependency's result is handed to the caller but not cached.
CachedResults_Dropped(results, id, result) == results

(* The table edits of handlePull and resolvePipelineReferences.            *)
CleanedResults(results, exportID) == MapDelete(results, exportID)         \* rpc.go:336
CachedResults(results, id, result) == MapPut(results, id, result)         \* rpc.go:253
CachedOperations(ops, id) == MapDelete(ops, id)                           \* rpc.go:254
CleanedOperations(ops, exportID) == MapDelete(ops, exportID)              \* rpc.go:380
StoredResults(results, exportID, result) == MapPut(results, exportID, result) \* rpc.go:389

(* rpc.go:334-352: drop the cached result and answer from it.              *)
PullCleanup(t) ==
    /\ At(t, "cleanup")
    /\ PendingResults' = CleanedResults(PendingResults, th[t].exportID)
    /\ Return(t, th[t].msg, th[t].pre, th[t].calls,
              jsonMarshal(CachedResponse(th[t].exportID, th[t].result.v)))
    /\ UNCHANGED <<apart, Target, NextExportID, PendingOperations, crashed, nmsg, pushLog,
                   everKeys, ndisp>>

(* rpc.go:207-238, 265-267: the next pipeline reference of the args being  *)
(* resolved, looked up under the read lock.                                *)
ResolveRef(t) ==
    /\ At(t, "resolve")
    /\ Top(t).k <= Len(Top(t).order)
    /\ LET f == Top(t)
           pos == f.order[f.k]
           v == NodeAt(f.cur, pos)
           refExportID == v.l[2].n
           depth == Len(th[t].frames)
       IN IF refExportID \in DOMAIN PendingResults
          THEN LET walked == WalkRefPath(v, PendingResults[refExportID]) IN
               IF walked.ok
               THEN /\ th' = [th EXCEPT ![t].frames[depth].cur = SetAt(f.cur, pos, walked.v),
                                        ![t].frames[depth].k = f.k + 1]
                    /\ UNCHANGED <<log, crashed>>
               ELSE PipelineFailure(t, walked.err) /\ UNCHANGED crashed
          ELSE IF refExportID \in DOMAIN PendingOperations
          THEN IF depth >= MaxDepth
               THEN crashed' = TRUE /\ UNCHANGED <<th, log>>
               ELSE /\ \E order \in RefOrders(PendingOperations[refExportID].Args) :
                         th' = [th EXCEPT ![t].frames =
                                  Append(@, Frame(refExportID,
                                                  PendingOperations[refExportID], v, order))]
                    /\ UNCHANGED <<log, crashed>>
          ELSE PipelineFailure(t, "pipeline reference to non-existent export: "
                                   \o IdStr(refExportID))
               /\ UNCHANGED crashed
    /\ UNCHANGED <<apart, Target, NextExportID, PendingOperations, PendingResults, nmsg, pushLog, everKeys, ndisp>>

(* One call of Target.Dispatch: dep tells the call of rpc.go:246 from that *)
(* of rpc.go:376.                                                          *)
Call(id, f, out, dep) ==
    [id |-> id, method |-> f.method, args |-> jsonMarshal(f.cur), out |-> out,
     dep |-> dep]

(* rpc.go:240-249: the dispatch of a dependency, with no lock held.        *)
DispatchDependency(t) ==
    /\ At(t, "resolve")
    /\ Len(th[t].frames) > 1
    /\ Top(t).k > Len(Top(t).order)
    /\ \E out \in Dispatch(Top(t).method) :
         LET calls == Append(th[t].calls, Call(Top(t).id, Top(t), out, TRUE)) IN
         IF out.ok
         THEN /\ th' = [th EXCEPT ![t].pc = "cache", ![t].result = out, ![t].calls = calls]
              /\ UNCHANGED log
         ELSE Return(t, th[t].msg, th[t].pre, calls,
                     jsonMarshal(createErrorResponse(th[t].exportID, "PipelineError",
                                                     out.err)))
    /\ ndisp' = Counted(Top(t).id)
    /\ UNCHANGED <<apart, Target, NextExportID, PendingOperations, PendingResults, crashed, nmsg,
                   pushLog, everKeys>>

(* rpc.go:251-264: cache the dependency's result, walk the path, return to *)
(* the caller (rpc.go:275-279 / 287-291 / 365).                            *)
CacheResult(t) ==
    /\ At(t, "cache")
    /\ LET f == Top(t)
           result == th[t].result.v
           depth == Len(th[t].frames)
           parent == th[t].frames[depth - 1]
           walked == WalkRefPath(f.ref, result)
       IN /\ PendingResults' = CachedResults(PendingResults, f.id, result)
          /\ PendingOperations' = CachedOperations(PendingOperations, f.id)
          /\ everKeys' = everKeys \cup {f.id}
          /\ IF walked.ok
             THEN /\ th' = [th EXCEPT
                              ![t].pc = "resolve",
                              ![t].frames =
                                  [SubSeq(@, 1, depth - 1) EXCEPT
                                     ![depth - 1].cur =
                                         SetAt(parent.cur, parent.order[parent.k], walked.v),
                                     ![depth - 1].k = parent.k + 1]]
                  /\ UNCHANGED log
             ELSE PipelineFailure(t, walked.err)
    /\ UNCHANGED <<apart, Target, NextExportID, crashed, nmsg, pushLog, ndisp>>

(* rpc.go:370-376: the dispatch of the pulled operation, with no lock held. *)
DispatchPulled(t) ==
    /\ At(t, "resolve")
    /\ Len(th[t].frames) = 1
    /\ Top(t).k > Len(Top(t).order)
    /\ \E out \in Dispatch(Top(t).method) :
         th' = [th EXCEPT ![t].pc = "delop", ![t].result = out,
                          ![t].calls = Append(@, Call(th[t].exportID, Top(t), out, FALSE))]
    /\ ndisp' = Counted(th[t].exportID)
    /\ UNCHANGED <<apart, Target, NextExportID, PendingOperations, PendingResults, crashed, nmsg,
                   pushLog, everKeys, log>>

(* rpc.go:378-385: remove the operation; a dispatch error is answered here. *)
DeleteOperation(t) ==
    /\ At(t, "delop")
    /\ PendingOperations' = CleanedOperations(PendingOperations, th[t].exportID)
    /\ IF th[t].result.ok
       THEN th' = [th EXCEPT ![t].pc = "store"] /\ UNCHANGED log
       ELSE Return(t, th[t].msg, th[t].pre, th[t].calls,
                   jsonMarshal(createErrorResponse(th[t].exportID, "MethodError",
                                                   th[t].result.err)))
    /\ UNCHANGED <<apart, Target, NextExportID, PendingResults, crashed, nmsg, pushLog,
                   everKeys, ndisp>>

(* rpc.go:387-396: store the result and answer resolve.                    *)
StoreResult(t) ==
    /\ At(t, "store")
    /\ PendingResults' = StoredResults(PendingResults, th[t].exportID, th[t].result.v)
    /\ everKeys' = everKeys \cup {th[t].exportID}
    /\ Return(t, th[t].msg, th[t].pre, th[t].calls,
              jsonMarshal(ResolveResponse(th[t].exportID, th[t].result.v)))
    /\ UNCHANGED <<apart, Target, NextExportID, PendingOperations, crashed, nmsg, pushLog,
                   ndisp>>

----------------------------------------------------------------------------
(* Spec: one transport goroutine feeds the session, one message at a time  *)
(* (the WebSocket read loop and the HTTP batch loop of server.go).         *)

Transport == 1

Next ==
    \/ \E m \in Msgs : nmsg < MaxMsgs /\ HandlePush(Transport, m)
    \/ \E m \in Msgs : nmsg < MaxMsgs /\ PullBegin(Transport, m)
    \/ \E m \in Msgs : nmsg < MaxMsgs /\ HandleRelease(Transport, m)
    \/ \E m \in Msgs : nmsg < MaxMsgs /\ HandleAbort(Transport, m)
    \/ PullCleanup(Transport)
    \/ ResolveRef(Transport)
    \/ DispatchDependency(Transport)
    \/ CacheResult(Transport)
    \/ DispatchPulled(Transport)
    \/ DeleteOperation(Transport)
    \/ StoreResult(Transport)

Spec == Init /\ [][Next]_vars

(* SpecConc: several goroutines call HandleMessage on the same SessionData. *)
NextConc ==
    \/ \E t \in Threads, m \in ConcMsgs : nmsg < MaxConcMsgs /\ HandlePush(t, m)
    \/ \E t \in Threads, m \in ConcMsgs : nmsg < MaxConcMsgs /\ PullBegin(t, m)
    \/ \E t \in Threads, m \in ConcMsgs : nmsg < MaxConcMsgs /\ HandleRelease(t, m)
    \/ \E t \in Threads, m \in ConcMsgs : nmsg < MaxConcMsgs /\ HandleAbort(t, m)
    \/ \E t \in Threads : PullCleanup(t)
    \/ \E t \in Threads : ResolveRef(t)
    \/ \E t \in Threads : DispatchDependency(t)
    \/ \E t \in Threads : CacheResult(t)
    \/ \E t \in Threads : DispatchPulled(t)
    \/ \E t \in Threads : DeleteOperation(t)
    \/ \E t \in Threads : StoreResult(t)

InitConc == Init /\ Target \in ConcTargets

SpecConc == InitConc /\ [][NextConc]_vars

----------------------------------------------------------------------------
(* SpecPath: resolvePipelineReferences meets a reference whose target has a *)
(* stored result and walks the reference's path through it (rpc.go:214-223, *)
(* traversePath), for results and paths of every shape.  Numbers are whole, *)
(* as export ids and indices are on the wire.                               *)

MaxPathLen == 2     \* selectors in the path of a reference

PathValues ==
    { Map([id |-> Str("u_1"), tags |-> List(<<Str("a"), Str("b")>>)]),
      List(<<Num(10), Map([id |-> Str("u_2")])>>),
      List(<<>>),
      Str("s"),
      Null,
      Struct([id |-> Str("u_1")]),
      Strs(<<"n1", "n2">>) }

Selectors ==
    { Str("id"), Str("tags"), Str("zz"), Num(-1), Num(0), Num(1), Num(2), Null }

RECURSIVE Paths(_)
Paths(n) ==
    IF n = 0 THEN {<<>>}
    ELSE Paths(n - 1) \cup {Append(p, s) : p \in {q \in Paths(n - 1) : Len(q) = n - 1},
                                          s \in Selectors}

PathRefs ==
    {PipelineRefPath(1, p) : p \in Paths(MaxPathLen)} \cup {PipelineRef(1)}

InitPath ==
    /\ NewSessionData
    /\ walk \in {[pc |-> "found", ref |-> r, result |-> v, out |-> Ok(Null)] :
                    r \in PathRefs, v \in PathValues}
    /\ NoLocks /\ OneConnection /\ batch = NoBatch /\ NewBaseRpcTarget /\ file = NoFile /\ NewMetricsServer

(* rpc.go:217-223 *)
WalkStored ==
    /\ walk.pc = "found"
    /\ walk' = [walk EXCEPT !.pc = "walked", !.out = WalkRefPath(walk.ref, walk.result)]
    /\ UNCHANGED <<session, mu, lk, server, batch, base, file, metrics>>

NextPath == WalkStored

SpecPath == InitPath /\ [][NextPath]_vars

----------------------------------------------------------------------------
(* Properties.                                                             *)

Keys == DOMAIN PendingOperations \cup DOMAIN PendingResults
Busy(t) == th[t].pc # "idle"
AllIdle == \A t \in Threads : ~Busy(t)
IsPullOf(m, i) == m.l[1] = Str("pull") /\ m.l[2] = Num(i)

(* C1: in every reachable state, also inside a pull and with concurrent    *)
(* handlers on one SessionData, no export id is a key of both              *)
(* PendingOperations and PendingResults.                                   *)
C1_DisjointTables == DOMAIN PendingOperations \cap DOMAIN PendingResults = {}

(* Two handlers are inside handlePull at once, one of them between its     *)
(* dispatch and its table edits, and both tables are populated.            *)
C1_Witness ==
    /\ \E t, u \in Threads :
         /\ t # u /\ Busy(t)
         /\ th[u].pc \in {"delop", "store", "cache"}
    /\ PendingOperations # NoEntries
    /\ PendingResults # NoEntries

(* C2 as claimed: the n-th push message handled is assigned export id n,  *)
(* whatever its body.                                                      *)
C2_NthPushGetsN == \A n \in 1..Len(pushLog) : pushLog[n].id = n

NonEmptyList(body) == body.t = "list" /\ body.l # <<>>
ListPushesBefore(n) == Cardinality({k \in 1..n : NonEmptyList(pushLog[k].body)})

(* What handlePush does instead (the ids of C2 counted over the pushes     *)
(* whose body is a non-empty list): such a push is assigned the next id of *)
(* 1, 2, 3, ...; a push whose body is not a list, or is the empty list, is *)
(* assigned no id and does not advance the counter.                        *)
ListPushesCounted ==
    /\ \A n \in 1..Len(pushLog) :
         pushLog[n].id = IF NonEmptyList(pushLog[n].body) THEN ListPushesBefore(n) ELSE 0
    /\ AllIdle => NextExportID = ListPushesBefore(Len(pushLog)) + 1

(* C3: NextExportID never decreases and is strictly greater than every id  *)
(* that is or ever was a key of PendingOperations or PendingResults, and   *)
(* the ids of successive pushes strictly increase.                         *)
C3_MonotonicIds ==
    [][ /\ NextExportID' >= NextExportID
        /\ \A i \in everKeys' \cup DOMAIN PendingOperations' \cup DOMAIN PendingResults' :
              i < NextExportID'
        /\ everKeys \cup Keys \subseteq everKeys'
        /\ \A a, b \in 1..Len(pushLog') :
              (a < b /\ pushLog'[a].id # 0 /\ pushLog'[b].id # 0)
                  => pushLog'[a].id < pushLog'[b].id ]_vars

(* Two ids were allocated and one of them is no longer a key.              *)
C3_Witness ==
    /\ NextExportID = 3
    /\ everKeys = {1, 2}
    /\ Keys # everKeys

----------------------------------------------------------------------------
(* What a pull is expected to compute, read off the tables as they were    *)
(* when the pull began (pre) and the dispatcher calls it made (calls).     *)

RECURSIVE RefsIn(_)
RefsIn(v) ==
    IF IsPipelineRef(v) THEN {v}
    ELSE IF v.t = "list" THEN UNION {RefsIn(v.l[n]) : n \in 1..Len(v.l)}
    ELSE IF v.t = "map" THEN UNION {RefsIn(v.m[k]) : k \in DOMAIN v.m}
    ELSE {}

RefTargets(ops, i) ==
    IF i \in DOMAIN ops THEN {r.l[2].n : r \in RefsIn(ops[i].Args)} ELSE {}

(* The ids reachable from the frontier through the args of pending ops.    *)
RECURSIVE Reach(_, _, _)
Reach(ops, frontier, seen) ==
    IF frontier = {} THEN seen
    ELSE LET j == CHOOSE x \in frontier : TRUE IN
         Reach(ops, (frontier \cup RefTargets(ops, j)) \ (seen \cup {j}), seen \cup {j})

Deps(ops, i) == Reach(ops, RefTargets(ops, i), {})
Acyclic(ops, i) == \A j \in Deps(ops, i) \cup {i} : j \notin Deps(ops, j)

(* Path walking as the protocol describes it: a string steps into a        *)
(* mapping (a missing key gives null), a non-negative integer into a list. *)
IsMapping(v) == v.t \in {"map", "struct"}
IsSequence(v) == v.t \in {"list", "strs"}
RECURSIVE Walk(_, _)
Walk(v, path) ==
    IF path = <<>> THEN Ok(v)
    ELSE LET s == Head(path)
             w == jsonMarshal(v) IN
         IF s.t = "str" /\ IsMapping(v)
         THEN Walk(IF s.s \in DOMAIN w.m THEN w.m[s.s] ELSE Null, Tail(path))
         ELSE IF s.t = "num" /\ IsSequence(v) /\ s.n >= 0 /\ s.n < Len(w.l)
         THEN Walk(w.l[s.n + 1], Tail(path))
         ELSE Err("bad path")
RefPath(r) == IF Len(r.l) >= 3 /\ r.l[3].t = "list" THEN r.l[3].l ELSE <<>>

CallsFor(calls, j) == {n \in 1..Len(calls) : calls[n].id = j}
HasResult(e, j) ==
    \/ j \in DOMAIN e.pre.res
    \/ \E n \in CallsFor(e.calls, j) : e.calls[n].out.ok
ResultOf(e, j) ==
    IF j \in DOMAIN e.pre.res THEN e.pre.res[j]
    ELSE e.calls[CHOOSE n \in CallsFor(e.calls, j) : e.calls[n].out.ok].out.v

(* The args with every reference replaced by its target's result, walked.  *)
RECURSIVE Substituted(_, _)
Substituted(v, e) ==
    IF IsPipelineRef(v) THEN Walk(ResultOf(e, v.l[2].n), RefPath(v)).v
    ELSE IF v.t = "list" THEN List([n \in 1..Len(v.l) |-> Substituted(v.l[n], e)])
    ELSE IF v.t = "map" THEN Map([k \in DOMAIN v.m |-> Substituted(v.m[k], e)])
    ELSE v

(* The premise of C4 for a pull e of id i, begun or completed: op i is     *)
(* pending, every reference reachable from its args targets an id that is  *)
(* pending or in results, with a path valid for the target's result where  *)
(* that result is known, and every dispatcher call made succeeded.         *)
ReachableRefs(ops, i) ==
    UNION {RefsIn(ops[j].Args) : j \in (Deps(ops, i) \cup {i}) \cap DOMAIN ops}
Resolvable(e, i) ==
    /\ i \in DOMAIN e.pre.ops
    /\ \A j \in Deps(e.pre.ops, i) : j \in DOMAIN e.pre.ops \cup DOMAIN e.pre.res
    /\ \A r \in ReachableRefs(e.pre.ops, i) :
          HasResult(e, r.l[2].n) => Walk(ResultOf(e, r.l[2].n), RefPath(r)).ok
    /\ \A n \in 1..Len(e.calls) : e.calls[n].out.ok

(* The conclusion of C4 for a completed pull e of id i.                    *)
EvaluatedOnce(e, i) ==
    /\ Cardinality(CallsFor(e.calls, i)) = 1
    /\ e.calls[Len(e.calls)].id = i
    /\ \A j \in Deps(e.pre.ops, i) \cap DOMAIN e.pre.ops :
          Cardinality(CallsFor(e.calls, j)) = 1
    /\ e.calls[Len(e.calls)].args = jsonMarshal(Substituted(e.pre.ops[i].Args, e))
    /\ e.out.l[1] = Str("resolve")
    /\ e.out.l[2] = Num(i)
    /\ LET r == jsonMarshal(e.calls[Len(e.calls)].out.v) IN
       e.out.l[3] \in {r, List(<<r>>)}

InProgress(t) == [msg |-> th[t].msg, pre |-> th[t].pre, calls |-> th[t].calls]

(* C4 as claimed: a serially handled pull(i) whose op is pending, whose    *)
(* reachable references all target pending or computed ids with valid      *)
(* paths, and whose dispatcher calls all succeed, invokes the dispatcher   *)
(* for i exactly once, after every pending dependency, with the pushed     *)
(* args in which each reference is replaced by its walked result, and      *)
(* emits resolve with i's result: it cannot die before answering.          *)
C4_PullEvaluates ==
    \A i \in PullIds :
        /\ (log # <<>> /\ IsPullOf(log[Len(log)].msg, i)
              /\ Resolvable(log[Len(log)], i))
             => EvaluatedOnce(log[Len(log)], i)
        /\ \A t \in Threads :
             (Busy(t) /\ IsPullOf(th[t].msg, i) /\ Resolvable(InProgress(t), i))
                 => ~crashed

(* The same statement for operations whose references do not lead back to  *)
(* an operation on the way (no operation depends on itself) and a target   *)
(* whose results are of the dynamic JSON types.                            *)
C4_AcyclicPullEvaluates ==
    \A i \in PullIds :
        /\ (log # <<>> /\ IsPullOf(log[Len(log)].msg, i) /\ Target = "handlers"
              /\ Resolvable(log[Len(log)], i) /\ Acyclic(log[Len(log)].pre.ops, i))
             => EvaluatedOnce(log[Len(log)], i)
        /\ \A t \in Threads :
             (Busy(t) /\ IsPullOf(th[t].msg, i) /\ Resolvable(InProgress(t), i)
                /\ Acyclic(th[t].pre.ops, i))
                 => ~crashed

C4_AcyclicWitness ==
    /\ log # <<>> /\ IsPullOf(log[Len(log)].msg, 2) /\ Target = "handlers"
    /\ Resolvable(log[Len(log)], 2) /\ Acyclic(log[Len(log)].pre.ops, 2)
    /\ Len(log[Len(log)].calls) = 2

----------------------------------------------------------------------------
(* The last completed message, the one before it, and shapes of answers.   *)

Last == log[Len(log)]
Previous == log[Len(log) - 1]
LastIsPull(i) == AllIdle /\ Len(log) >= 1 /\ IsPullOf(Last.msg, i)
LastTwoArePulls(i) ==
    AllIdle /\ Len(log) >= 2 /\ IsPullOf(Last.msg, i) /\ IsPullOf(Previous.msg, i)

Reject(i, kind, message) ==
    List(<<Str("reject"), Num(i), List(<<Str("error"), Str(kind), Str(message)>>)>>)
RejectNotFound(i) == Reject(i, "ExportNotFound", "Export ID not found")

(* The pull e found its op pending and its own dispatch was made.          *)
OwnDispatch(e, i) ==
    /\ i \in DOMAIN e.pre.ops /\ i \notin DOMAIN e.pre.res
    /\ e.calls # <<>> /\ ~e.calls[Len(e.calls)].dep
OwnResult(e) == e.calls[Len(e.calls)].out

RECURSIVE SumTo(_, _)
SumTo(f, n) == IF n = 0 THEN 0 ELSE f[n] + SumTo(f, n - 1)
RECURSIVE CountRefs(_, _)
CountRefs(v, id) ==
    IF IsPipelineRef(v) THEN (IF v.l[2].n = id THEN 1 ELSE 0)
    ELSE IF v.t = "list"
    THEN SumTo([n \in 1..Len(v.l) |-> CountRefs(v.l[n], id)], Len(v.l))
    ELSE 0
(* References to id in the args of the operations pushed so far.           *)
BatchRefs(id) ==
    SumTo([n \in 1..Len(pushLog) |->
             IF pushLog[n].id # 0 /\ RecognizedPush(pushLog[n].body)
             THEN CountRefs(PushedOperation(pushLog[n].body.l).Args, id) ELSE 0],
          Len(pushLog))

(* C5 as claimed: when two or more pipeline references of a serially       *)
(* handled batch point at one export id, the dispatcher is invoked at most *)
(* once for that id, whether it succeeds or fails.                         *)
C5_DiamondOnce ==
    \A id \in DOMAIN ndisp : BatchRefs(id) >= 2 => ndisp[id] <= 1

(* C6 as claimed: after a pull(i) that found op i pending and whose        *)
(* dispatch succeeded, i is in neither table, and the next pull(i) is      *)
(* rejected with ExportNotFound.                                           *)
C6_PullForgets ==
    \A i \in PullIds :
        /\ (LastIsPull(i) /\ OwnDispatch(Last, i) /\ OwnResult(Last).ok)
             => i \notin Keys
        /\ (LastTwoArePulls(i) /\ OwnDispatch(Previous, i) /\ OwnResult(Previous).ok)
             => Last.out = RejectNotFound(i)

(* C6 amended: after a pull(i) that found op i pending and whose dispatch  *)
(* succeeded, i is out of PendingOperations and in PendingResults with the *)
(* dispatcher's result; the next pull(i) is answered from that value       *)
(* without a dispatch and leaves i in neither table.                       *)
C6_PullKeepsResult ==
    \A i \in PullIds :
        /\ (LastIsPull(i) /\ OwnDispatch(Last, i) /\ OwnResult(Last).ok)
             => /\ i \notin DOMAIN PendingOperations
                /\ i \in DOMAIN PendingResults
                /\ PendingResults[i] = OwnResult(Last).v
                /\ Last.out.l[1] = Str("resolve")
        /\ (LastTwoArePulls(i) /\ OwnDispatch(Previous, i) /\ OwnResult(Previous).ok)
             => /\ Last.calls = <<>>
                /\ Last.out = IF IsErrorValue(OwnResult(Previous).v)
                              THEN List(<<Str("reject"), Num(i),
                                          jsonMarshal(OwnResult(Previous).v)>>)
                              ELSE Previous.out
                /\ i \notin Keys

C6_Witness ==
    \E i \in PullIds :
        /\ LastTwoArePulls(i) /\ OwnDispatch(Previous, i) /\ OwnResult(Previous).ok
        /\ Last.out.l[1] = Str("resolve")

(* C7: a pull(i) that finds i in PendingResults removes it, changes no     *)
(* other entry, invokes no dispatcher, and the next pull(i) is rejected    *)
(* with ExportNotFound.                                                    *)
C7_CachedPullConsumes ==
    \A i \in PullIds :
        /\ (LastIsPull(i) /\ i \in DOMAIN Last.pre.res)
             => /\ PendingResults =
                      [x \in DOMAIN Last.pre.res \ {i} |-> Last.pre.res[x]]
                /\ PendingOperations = Last.pre.ops
                /\ NextExportID = Last.pre.next
                /\ Last.calls = <<>>
                /\ Last.out # NoResponse
        /\ (LastTwoArePulls(i) /\ i \in DOMAIN Previous.pre.res)
             => Last.out = RejectNotFound(i)

(* A stored result was pulled, and pulled again.                           *)
C7_Witness ==
    \E i \in PullIds :
        /\ LastTwoArePulls(i) /\ i \in DOMAIN Previous.pre.res
        /\ Previous.out.l[1] = Str("resolve")

(* C8 as claimed: once a pull(i) has been answered with a reject of any    *)
(* kind, i is in neither table.                                            *)
C8_RejectForgets ==
    \A i \in PullIds :
        (LastIsPull(i) /\ Last.out.l[1] = Str("reject")) => i \notin Keys

(* C9: a pull(i) of a pending op whose own dispatch returns an error emits *)
(* exactly ["reject", i, ["error", "MethodError", <message>]], removes i   *)
(* from PendingOperations, stores nothing under i, and the next pull(i) is *)
(* rejected with ExportNotFound.                                           *)
C9_MethodError ==
    \A i \in PullIds :
        /\ (LastIsPull(i) /\ OwnDispatch(Last, i) /\ ~OwnResult(Last).ok)
             => /\ Last.out = Reject(i, "MethodError", OwnResult(Last).err)
                /\ i \notin DOMAIN PendingOperations
                /\ i \notin DOMAIN PendingResults
        /\ (LastTwoArePulls(i) /\ OwnDispatch(Previous, i) /\ ~OwnResult(Previous).ok)
             => Last.out = RejectNotFound(i)

(* The failed operation had a dependency that was evaluated first.         *)
C9_Witness ==
    \E i \in PullIds :
        /\ LastTwoArePulls(i) /\ OwnDispatch(Previous, i) /\ ~OwnResult(Previous).ok
        /\ Len(Previous.calls) = 2

(* C10: a pull(i) of an id in neither table emits exactly                  *)
(* ["reject", i, ["error", "ExportNotFound", "Export ID not found"]],      *)
(* invokes no dispatcher and leaves NextExportID and both tables as they   *)
(* were.                                                                   *)
C10_ExportNotFound ==
    \A i \in PullIds :
        (LastIsPull(i) /\ i \notin DOMAIN Last.pre.ops \cup DOMAIN Last.pre.res)
            => /\ Last.out = RejectNotFound(i)
               /\ Last.calls = <<>>
               /\ PendingOperations = Last.pre.ops
               /\ PendingResults = Last.pre.res
               /\ NextExportID = Last.pre.next

(* Pulled without answer in the tables: an id dropped by push (allocated,  *)
(* nothing registered) while another operation is pending.                 *)
C10_Witness ==
    \E i \in PullIds :
        /\ LastIsPull(i) /\ i \notin DOMAIN Last.pre.ops \cup DOMAIN Last.pre.res
        /\ i < NextExportID /\ i \notin everKeys
        /\ PendingOperations # NoEntries

----------------------------------------------------------------------------
(* The ways the resolution of the args of op i can fail in the pull e: a   *)
(* reference to an id in neither table, a path that traversePath refuses   *)
(* on the target's result, a dependency whose dispatch returned an error.  *)

NonExistent(j) == "pipeline reference to non-existent export: " \o IdStr(j)
UnknownDeps(e, i) ==
    {j \in Deps(e.pre.ops, i) : j \notin DOMAIN e.pre.ops \cup DOMAIN e.pre.res}
BadPathRefs(e, i) ==
    {r \in ReachableRefs(e.pre.ops, i) :
        HasResult(e, r.l[2].n) /\ ~WalkRefPath(r, ResultOf(e, r.l[2].n)).ok}
FailedCalls(e) == {n \in 1..Len(e.calls) : e.calls[n].dep /\ ~e.calls[n].out.ok}
ResolutionFailures(e, i) ==
    {NonExistent(j) : j \in UnknownDeps(e, i)}
    \cup {WalkRefPath(r, ResultOf(e, r.l[2].n)).err : r \in BadPathRefs(e, i)}
    \cup {e.calls[n].out.err : n \in FailedCalls(e)}

PulledPending(e, i) == i \in DOMAIN e.pre.ops /\ i \notin DOMAIN e.pre.res

(* C11: a serially handled pull(i) of a pending op whose argument          *)
(* resolution fails (unknown id, index out of range, selector that does    *)
(* not fit, dependency dispatch error) emits the one reject                *)
(* ["reject", i, ["error", "PipelineError", <message of the failure>]],    *)
(* naming i and not the dependency, and makes no dispatch of op i.         *)
C11_PipelineError ==
    \A i \in PullIds :
        (LastIsPull(i) /\ PulledPending(Last, i) /\ ResolutionFailures(Last, i) # {})
            => /\ \E m \in ResolutionFailures(Last, i) :
                     Last.out = Reject(i, "PipelineError", m)
               /\ CallsFor(Last.calls, i) = {}
               /\ \A n \in 1..Len(Last.calls) : Last.calls[n].dep

(* pull(2) failed on its dependency's dispatch error, and pulled again     *)
(* failed on an index beyond the end of the dependency's result.           *)
C11_Witness ==
    /\ LastTwoArePulls(2)
    /\ Previous.out = Reject(2, "PipelineError", "invalid session")
    /\ Last.out = Reject(2, "PipelineError", "array index out of bounds")
    /\ Len(Last.calls) = 1 /\ Last.calls[1].id = 1

----------------------------------------------------------------------------
IsRejectOfKind(out, i, kind) ==
    /\ out.t = "list" /\ Len(out.l) = 3
    /\ out.l[1] = Str("reject") /\ out.l[2] = Num(i)
    /\ out.l[3].t = "list" /\ Len(out.l[3].l) = 3
    /\ out.l[3].l[1] = Str("error") /\ out.l[3].l[2] = Str(kind)

(* C12 as claimed: every pull ends with a response; a pull of an op whose  *)
(* args lead back to an op on the way (its own id, or a cycle of pending   *)
(* ops) is answered with a PipelineError reject and the handler does not   *)
(* recurse without end.                                                    *)
C12_CycleRejected ==
    /\ ~crashed
    /\ \A i \in PullIds :
         (LastIsPull(i) /\ PulledPending(Last, i) /\ ~Acyclic(Last.pre.ops, i))
             => IsRejectOfKind(Last.out, i, "PipelineError")

----------------------------------------------------------------------------
(* The value a completed pull e of id i answered with: the stored result   *)
(* it found, or the result of its own dispatch.                            *)
PulledResult(e, i) == IF i \in DOMAIN e.pre.res THEN e.pre.res[i] ELSE OwnResult(e).v

(* Array escaping of the protocol: a value whose JSON form is a list goes  *)
(* out inside a one-element list, every other value bare.                  *)
Escaped(v) ==
    LET w == jsonMarshal(v) IN IF w.t = "list" THEN List(<<w>>) ELSE w
Unescaped(x) == IF x.t = "list" THEN x.l[1] ELSE x

(* C13 as claimed: every pull(i) answered with resolve carries [L] when    *)
(* the dispatcher's result is a list L, of whatever Go list type, and the  *)
(* bare value otherwise, so that unwrapping one level recovers L; both     *)
(* when the pull computed the result and when it found it stored.          *)
C13_ListsEscaped ==
    \A i \in PullIds :
        (LastIsPull(i) /\ Last.out.l[1] = Str("resolve"))
            => /\ Last.out.l[3] = Escaped(PulledResult(Last, i))
               /\ Unescaped(Last.out.l[3]) = jsonMarshal(PulledResult(Last, i))

----------------------------------------------------------------------------
FoundStored(e, i) == i \in DOMAIN e.pre.res

----------------------------------------------------------------------------
(* The path is made of string keys, each held by the JSON object reached.  *)
RECURSIVE HoldsKeys(_, _)
HoldsKeys(w, path) ==
    \/ path = <<>>
    \/ /\ Head(path).t = "str" /\ w.t = "map" /\ Head(path).s \in DOMAIN w.m
       /\ HoldsKeys(w.m[Head(path).s], Tail(path))
FieldRefs(e, i) ==
    {r \in ReachableRefs(e.pre.ops, i) :
        /\ RefPath(r) # <<>> /\ HasResult(e, r.l[2].n)
        /\ HoldsKeys(jsonMarshal(ResultOf(e, r.l[2].n)), RefPath(r))}

(* C15 as claimed: in a serially handled pull, a reference with a          *)
(* string-key path into a result that serializes to a JSON object holding  *)
(* the keys resolves to the field's value, whichever Go type the handler   *)
(* returned; a batch  call -> call(result.id)  with such results and no    *)
(* dispatcher error resolves its pulls.                                    *)
C15_FieldOfTypedResult ==
    \A i \in PullIds :
        (LastIsPull(i) /\ PulledPending(Last, i))
            => /\ \A r \in FieldRefs(Last, i) :
                    WalkRefPath(r, ResultOf(Last, r.l[2].n))
                        = Ok(Walk(ResultOf(Last, r.l[2].n), RefPath(r)).v)
               /\ (FieldRefs(Last, i) # {} /\ Resolvable(Last, i)
                     /\ Acyclic(Last.pre.ops, i))
                    => Last.out.l[1] = Str("resolve")

----------------------------------------------------------------------------
(* The ids whose dispatch count grows in a step.                           *)
DispatchedNow ==
    {id \in DOMAIN ndisp' : id \notin DOMAIN ndisp \/ ndisp'[id] > ndisp[id]}

(* C16: with serially handled messages, every step that invokes the        *)
(* dispatcher is made by the handler of a pull, for an operation that is   *)
(* registered and is the pulled one or is reached from the pulled one's    *)
(* args through the args of pending operations; no push, release or abort  *)
(* invokes it, and an operation neither pulled nor so referenced is never  *)
(* dispatched.                                                             *)
C16_DispatchOnlyOnPull ==
    [][ \A id \in DispatchedNow :
           /\ id \in DOMAIN PendingOperations
           /\ \E t \in Threads, i \in PullIds :
                 /\ Busy(t) /\ IsPullOf(th[t].msg, i)
                 /\ id = i \/ id \in Deps(th[t].pre.ops, i)
           /\ \A t \in Threads : Busy(t) => MsgTag(th[t].msg) = "pull" ]_vars

(* Two pushes dispatched nothing; pull(2) then ran its dependency 1 and    *)
(* itself, once each.                                                      *)
C16_Witness ==
    /\ LastIsPull(2) /\ Len(log) >= 2 /\ MsgTag(Previous.msg) = "push"
    /\ Previous.calls = <<>>
    /\ Len(Last.calls) = 2 /\ Last.calls[1].id = 1 /\ Last.calls[1].dep
    /\ DOMAIN ndisp = {1, 2} /\ ndisp[1] = 1 /\ ndisp[2] = 1

----------------------------------------------------------------------------
IsResponseFor(out, i) ==
    /\ out.t = "list" /\ Len(out.l) = 3
    /\ out.l[1] \in {Str("resolve"), Str("reject")}
    /\ out.l[2] = Num(i)

(* C17 as claimed: every pull message with a numeric export id gets one    *)
(* outbound message, a resolve or a reject carrying the pulled id (so the  *)
(* handler of a pull always returns); push, release and abort messages get *)
(* no outbound message.                                                    *)
C17_OneResponsePerPull ==
    /\ \A n \in 1..Len(log) :
         IF MsgTag(log[n].msg) = "pull"
         THEN IsResponseFor(log[n].out, log[n].msg.l[2].n)
         ELSE log[n].out = NoResponse
    /\ \A t \in Threads : (Busy(t) /\ MsgTag(th[t].msg) = "pull") => ~crashed

----------------------------------------------------------------------------
(* The path of the walked reference, and the walk of the rest of a path    *)
(* from the value reached by its first selector.                           *)
WalkedPath == RefPath(walk.ref)
Onward(v) == traversePath(v, Tail(WalkedPath))

----------------------------------------------------------------------------
(* The calls of Target.Dispatch made by the handlers: of the last          *)
(* completed message and of the pulls in progress.                         *)
Handled ==
    (IF log # <<>> THEN {[msg |-> Last.msg, pre |-> Last.pre, calls |-> Last.calls]}
     ELSE {})
    \cup {InProgress(t) : t \in {u \in Threads : Busy(u)}}

(* C19 as claimed: the args of every dispatcher call hold no list of the   *)
(* form ["pipeline", <number>, ...] at any depth, whatever the pushed args *)
(* and whatever the dispatcher returned for the dependencies.              *)
C19_NoReferenceShape ==
    \A e \in Handled : \A n \in 1..Len(e.calls) : RefsIn(e.calls[n].args) = {}

(* The pushed args with every pipeline reference replaced by the result of *)
(* its target, walked by traversePath; a substituted value is not looked   *)
(* into again.                                                             *)
RECURSIVE Replaced(_, _)
Replaced(v, e) ==
    IF IsPipelineRef(v) THEN WalkRefPath(v, ResultOf(e, v.l[2].n)).v
    ELSE IF v.t = "list" THEN List([n \in 1..Len(v.l) |-> Replaced(v.l[n], e)])
    ELSE IF v.t = "map" THEN Map([k \in DOMAIN v.m |-> Replaced(v.m[k], e)])
    ELSE v
RECURSIVE ReplacedValues(_, _)
ReplacedValues(v, e) ==
    IF IsPipelineRef(v) THEN {jsonMarshal(WalkRefPath(v, ResultOf(e, v.l[2].n)).v)}
    ELSE IF v.t = "list" THEN UNION {ReplacedValues(v.l[n], e) : n \in 1..Len(v.l)}
    ELSE IF v.t = "map" THEN UNION {ReplacedValues(v.m[k], e) : k \in DOMAIN v.m}
    ELSE {}

(* C19 amended: with serially handled messages, the args of every          *)
(* dispatcher call are the pushed args of the operation in which each      *)
(* pipeline reference is replaced by the walked result of its target, so   *)
(* no reference of the pushed tree is left; a list of the form             *)
(* ["pipeline", <number>, ...] occurs in them only inside a value that the *)
(* dispatcher returned for a dependency.                                   *)
C19_PushedReferencesReplaced ==
    \A e \in Handled : \A n \in 1..Len(e.calls) :
        LET c == e.calls[n] IN
        /\ c.id \in DOMAIN e.pre.ops
        /\ c.args = jsonMarshal(Replaced(e.pre.ops[c.id].Args, e))
        /\ \A r \in RefsIn(c.args) :
              \E x \in ReplacedValues(e.pre.ops[c.id].Args, e) : r \in RefsIn(x)

(* The dependency returned ["pipeline", 1]; the pulled operation was       *)
(* dispatched with that list in its args.                                  *)
C19_Witness ==
    /\ LastIsPull(2) /\ Len(Last.calls) = 2
    /\ Last.calls[1].out = Ok(List(<<Str("pipeline"), Num(1)>>))
    /\ RefsIn(Last.calls[2].args) # {}

----------------------------------------------------------------------------
(* The outcome of resolving args in the given visiting order when no       *)
(* reference targets a pending operation: each reference is read from the  *)
(* stored results res, or is unknown.                                      *)
RECURSIVE ResolvedInOrder(_, _, _, _)
ResolvedInOrder(cur, order, k, res) ==
    IF k > Len(order) THEN Ok(cur)
    ELSE LET v == NodeAt(cur, order[k])
             id == v.l[2].n
         IN IF id \in DOMAIN res
            THEN LET walked == WalkRefPath(v, res[id]) IN
                 IF walked.ok
                 THEN ResolvedInOrder(SetAt(cur, order[k], walked.v), order, k + 1, res)
                 ELSE walked
            ELSE Err(NonExistent(id))

RECURSIVE HasMapping(_)
HasMapping(v) ==
    \/ v.t = "map"
    \/ v.t = "list" /\ ~IsPipelineRef(v) /\ \E n \in 1..Len(v.l) : HasMapping(v.l[n])

(* C20 as claimed: the pull of an operation with mapping-valued args has   *)
(* the same outcome for every order in which the keys can be visited: the  *)
(* same resolved args go to the dispatcher, or the same reject goes to the *)
(* client.  Stated for operations none of whose references targets a       *)
(* pending operation, where the outcome is a function of the stored        *)
(* results and the order alone.                                            *)
C20_KeyOrderIndependent ==
    \A i \in PullIds :
        (/\ LastIsPull(i) /\ PulledPending(Last, i)
         /\ HasMapping(Last.pre.ops[i].Args)
         /\ RefTargets(Last.pre.ops, i) \cap DOMAIN Last.pre.ops = {})
            => \A order \in RefOrders(Last.pre.ops[i].Args) :
                 LET r == ResolvedInOrder(Last.pre.ops[i].Args, order, 1, Last.pre.res) IN
                 IF r.ok
                 THEN Len(Last.calls) = 1 /\ Last.calls[1].args = jsonMarshal(r.v)
                 ELSE Last.out = Reject(i, "PipelineError", r.err)

----------------------------------------------------------------------------
(* The handler t has removed the pulled op from PendingOperations and has  *)
(* not yet stored its result (between rpc.go:381 and rpc.go:388).          *)
BetweenEdits(t, i) == th[t].pc = "store" /\ th[t].exportID = i

(* C21 as claimed: with concurrent handlers on one session, no handler     *)
(* observes a partial edit of another: a pull(i) is never answered         *)
(* ExportNotFound because it looked at the tables while another handler    *)
(* had removed op i and not yet inserted its result, an outcome no serial  *)
(* order of the two pulls gives.                                           *)
C21_NoPartialEditSeen ==
    \A i \in PullIds :
        ~ /\ log # <<>> /\ IsPullOf(Last.msg, i)
          /\ Last.out = RejectNotFound(i)
          /\ Last.pre.ops = PendingOperations /\ Last.pre.res = PendingResults
          /\ \E t \in Threads : BetweenEdits(t, i)

----------------------------------------------------------------------------
(* SpecLock: the lock operations of handlePush, handlePull and             *)
(* resolvePipelineReferences, one action per Lock/RLock/Unlock/RUnlock,    *)
(* call, return and Dispatch.  A position is named by its line of rpc.go;  *)
(* lk[t].r and lk[t].w count what goroutine t holds of mu; lk[t].stack is  *)
(* the return positions of the resolvePipelineReferences calls in          *)
(* progress.  Which branch a table lookup takes, and whether a call fails, *)
(* is left open: every branch of the code is taken in some behaviour.      *)

MaxLockDepth == 2

(* where a goroutine goes next: position, return positions, and whether    *)
(* the resolvePipelineReferences call that just returned gave an error     *)
To(pc, stack, err) == [pc |-> pc, stack |-> stack, err |-> err]

(* return of a resolvePipelineReferences call to the position after it     *)
Back(stack, err) == To(Head(stack), Tail(stack), err)

(* call of resolvePipelineReferences that returns to position back         *)
Into(stack, back) == To("204", <<back>> \o stack, FALSE)

Done == To("idle", <<>>, FALSE)

Moved(t, to, r, w) ==
    lk' = [lk EXCEPT ![t] = [pc |-> to.pc, stack |-> to.stack, err |-> to.err,
                             r |-> r, w |-> w]]

(* sync.RWMutex: RLock waits while a writer holds the mutex.               *)
RLock(t, to) ==
    /\ ~mu.writer
    /\ mu' = [mu EXCEPT !.readers = @ + 1]
    /\ Moved(t, to, lk[t].r + 1, lk[t].w)

RUnlock(t, to) ==
    /\ mu' = [mu EXCEPT !.readers = @ - 1]
    /\ Moved(t, to, lk[t].r - 1, lk[t].w)

(* sync.RWMutex: Lock waits while a writer or any reader holds the mutex.  *)
Lock(t, to) ==
    /\ ~mu.writer /\ mu.readers = 0
    /\ mu' = [mu EXCEPT !.writer = TRUE]
    /\ Moved(t, to, lk[t].r, TRUE)

Unlock(t, to) ==
    /\ mu' = [mu EXCEPT !.writer = FALSE]
    /\ Moved(t, to, lk[t].r, FALSE)

Goto(t, to) == Moved(t, to, lk[t].r, lk[t].w) /\ UNCHANGED mu

elsewhere == <<session, walk, server, batch, base, file, metrics>>

(* rpc.go:171-172 *)
PushLock(t) == lk[t].pc = "idle" /\ Lock(t, To("172", <<>>, FALSE)) /\ UNCHANGED elsewhere

(* rpc.go:173-200 and the deferred Unlock of rpc.go:172 *)
PushUnlock(t) == lk[t].pc = "172" /\ Unlock(t, Done) /\ UNCHANGED elsewhere

(* rpc.go:329 *)
PullRLock(t) == lk[t].pc = "idle" /\ RLock(t, To("331", <<>>, FALSE)) /\ UNCHANGED elsewhere

(* rpc.go:331-332: the result is cached *)
PullCachedRUnlock(t) ==
    lk[t].pc = "331" /\ RUnlock(t, To("335", <<>>, FALSE)) /\ UNCHANGED elsewhere

(* rpc.go:335 *)
PullCleanupLock(t) ==
    lk[t].pc = "335" /\ Lock(t, To("336", <<>>, FALSE)) /\ UNCHANGED elsewhere

(* rpc.go:336-353 *)
PullCleanupUnlock(t) == lk[t].pc = "336" /\ Unlock(t, Done) /\ UNCHANGED elsewhere

(* handlePull calling resolvePipelineReferences with the read lock held     *)
PullPendingRUnlock_Held(t) ==
    lk[t].pc = "331" /\ Goto(t, Into(<<>>, "366")) /\ UNCHANGED elsewhere

(* rpc.go:356-365: the operation is pending; resolve its args *)
PullPendingRUnlock(t) ==
    lk[t].pc = "331" /\ RUnlock(t, Into(<<>>, "366")) /\ UNCHANGED elsewhere

(* rpc.go:398-403: the id is in neither table *)
PullAbsentRUnlock(t) ==
    lk[t].pc = "331" /\ RUnlock(t, Done) /\ UNCHANGED elsewhere

(* rpc.go:366-373: the args resolved, or the pull is rejected *)
PullResolved(t) ==
    /\ lk[t].pc = "366"
    /\ Goto(t, IF lk[t].err THEN Done ELSE To("376", <<>>, FALSE))
    /\ UNCHANGED elsewhere

(* rpc.go:376: Target.Dispatch returns a value or an error *)
PullDispatch(t) ==
    /\ lk[t].pc = "376"
    /\ \E err \in BOOLEAN : Goto(t, To("379", <<>>, err))
    /\ UNCHANGED elsewhere

(* rpc.go:379 *)
PullDeleteLock(t) == lk[t].pc = "379" /\ Lock(t, To("380", <<>>, lk[t].err)) /\ UNCHANGED elsewhere

(* rpc.go:380-385 *)
PullDeleteUnlock(t) ==
    /\ lk[t].pc = "380"
    /\ Unlock(t, IF lk[t].err THEN Done ELSE To("388", <<>>, FALSE))
    /\ UNCHANGED elsewhere

(* rpc.go:388 *)
PullStoreLock(t) == lk[t].pc = "388" /\ Lock(t, To("389", <<>>, FALSE)) /\ UNCHANGED elsewhere

(* rpc.go:389-396 *)
PullStoreUnlock(t) == lk[t].pc = "389" /\ Unlock(t, Done) /\ UNCHANGED elsewhere

(* rpc.go:204-210, 295-298: the value is a primitive: return it *)
ResolvePrimitive(t) ==
    lk[t].pc = "204" /\ Goto(t, Back(lk[t].stack, FALSE)) /\ UNCHANGED elsewhere

(* rpc.go:272-275, 283-287: a list or map that is no reference: resolve    *)
(* its first element                                                       *)
ResolveElement(t) ==
    /\ lk[t].pc = "204"
    /\ Len(lk[t].stack) < MaxLockDepth
    /\ Goto(t, Into(lk[t].stack, "276"))
    /\ UNCHANGED elsewhere

(* rpc.go:276-281, 288-293: the element failed, or the loop goes on to the *)
(* next element, or it is over                                             *)
ResolveElementDone(t) ==
    /\ lk[t].pc = "276"
    /\ \/ Goto(t, Back(lk[t].stack, lk[t].err))
       \/ ~lk[t].err /\ Goto(t, Into(lk[t].stack, "276"))
    /\ UNCHANGED elsewhere

(* rpc.go:207-212: the value is a reference *)
RefRLock(t) == lk[t].pc = "204" /\ RLock(t, To("214", lk[t].stack, FALSE)) /\ UNCHANGED elsewhere

(* rpc.go:214-223: the target's result is cached; walking the path may fail *)
RefCachedRUnlock(t) ==
    /\ lk[t].pc = "214"
    /\ \E err \in BOOLEAN : RUnlock(t, Back(lk[t].stack, err))
    /\ UNCHANGED elsewhere

(* rpc.go:227-235: the target is pending: resolve its args (at the depth   *)
(* bound the args hold no list, map or reference: rpc.go:295-298)          *)
RefPendingRUnlock(t) ==
    /\ lk[t].pc = "214"
    /\ RUnlock(t, IF Len(lk[t].stack) < MaxLockDepth
                  THEN Into(lk[t].stack, "236")
                  ELSE To("236", lk[t].stack, FALSE))
    /\ UNCHANGED elsewhere

\* Mutant: the error return for an unknown target keeps the read lock.
RefAbsentRUnlock_Held(t) ==
    lk[t].pc = "214" /\ Goto(t, Back(lk[t].stack, TRUE)) /\ UNCHANGED elsewhere

(* rpc.go:265-267: the target is in neither table *)
RefAbsentRUnlock(t) ==
    lk[t].pc = "214" /\ RUnlock(t, Back(lk[t].stack, TRUE)) /\ UNCHANGED elsewhere

(* rpc.go:236-243 *)
RefResolved(t) ==
    /\ lk[t].pc = "236"
    /\ Goto(t, IF lk[t].err THEN Back(lk[t].stack, TRUE) ELSE To("246", lk[t].stack, FALSE))
    /\ UNCHANGED elsewhere

(* rpc.go:246-249: Target.Dispatch returns a value or an error *)
RefDispatch(t) ==
    /\ lk[t].pc = "246"
    /\ \/ Goto(t, To("252", lk[t].stack, FALSE))
       \/ Goto(t, Back(lk[t].stack, TRUE))
    /\ UNCHANGED elsewhere

(* rpc.go:252 *)
RefCacheLock(t) == lk[t].pc = "252" /\ Lock(t, To("253", lk[t].stack, FALSE)) /\ UNCHANGED elsewhere

(* rpc.go:253-263: cache, delete, unlock; walking the path may fail *)
RefCacheUnlock(t) ==
    /\ lk[t].pc = "253"
    /\ \E err \in BOOLEAN : Unlock(t, Back(lk[t].stack, err))
    /\ UNCHANGED elsewhere

NextLock ==
    \/ \E t \in Threads : PushLock(t)
    \/ \E t \in Threads : PushUnlock(t)
    \/ \E t \in Threads : PullRLock(t)
    \/ \E t \in Threads : PullCachedRUnlock(t)
    \/ \E t \in Threads : PullCleanupLock(t)
    \/ \E t \in Threads : PullCleanupUnlock(t)
    \/ \E t \in Threads : PullPendingRUnlock(t)
    \/ \E t \in Threads : PullAbsentRUnlock(t)
    \/ \E t \in Threads : PullResolved(t)
    \/ \E t \in Threads : PullDispatch(t)
    \/ \E t \in Threads : PullDeleteLock(t)
    \/ \E t \in Threads : PullDeleteUnlock(t)
    \/ \E t \in Threads : PullStoreLock(t)
    \/ \E t \in Threads : PullStoreUnlock(t)
    \/ \E t \in Threads : ResolvePrimitive(t)
    \/ \E t \in Threads : ResolveElement(t)
    \/ \E t \in Threads : ResolveElementDone(t)
    \/ \E t \in Threads : RefRLock(t)
    \/ \E t \in Threads : RefCachedRUnlock(t)
    \/ \E t \in Threads : RefPendingRUnlock(t)
    \/ \E t \in Threads : RefAbsentRUnlock(t)
    \/ \E t \in Threads : RefResolved(t)
    \/ \E t \in Threads : RefDispatch(t)
    \/ \E t \in Threads : RefCacheLock(t)
    \/ \E t \in Threads : RefCacheUnlock(t)

SpecLock == Init /\ [][NextLock]_vars

(* the goroutine is about to call, or is inside, Target.Dispatch           *)
AtDispatch(t) == lk[t].pc \in {"246", "376"}

HoldsLock(t) == lk[t].r > 0 \/ lk[t].w

(* C22: whenever a goroutine calls Target.Dispatch (from handlePull or     *)
(* from resolvePipelineReferences) it holds neither the read lock nor the  *)
(* write lock of the session's mutex.                                      *)
C22_NoLockAtDispatch ==
    \A t \in Threads : AtDispatch(t) => ~HoldsLock(t)

(* A goroutine is at the Dispatch of a dependency, inside the resolution   *)
(* of a pulled op's args, while another goroutine holds the write lock.    *)
C22_Witness ==
    \E t, u \in Threads :
        /\ lk[t].pc = "246" /\ Len(lk[t].stack) = MaxLockDepth
        /\ u # t /\ lk[u].w /\ mu.writer

----------------------------------------------------------------------------
(* SpecSessions: SetupRpcEndpoint serves several WebSocket connections and *)
(* HTTP requests with one RpcSession, which holds only the target, and     *)
(* gives the handler of each connection or request a SessionData of its    *)
(* own (server.go:22, 34, 71).  The handlers above act on the SessionData  *)
(* they are passed: NextExportID, PendingOperations and PendingResults are *)
(* the fields of the one that conn's handler holds, parked has the fields  *)
(* of the others.  Messages of different connections interleave here one   *)
(* whole message at a time.                                                *)

MaxConns == 2
MaxSessMsgs == 3

Conns == 1..MaxConns

SessBodies ==
    { List(<<Str("pipeline"), Num(0), List(<<Str("get")>>)>>),
      PipelineCall("echo", List(<<PipelineRefPath(1, <<Str("id")>>)>>)) }

SessMsgs == MsgsOf(SessBodies)

(* the SessionData (its three tables) behind the pointer k                 *)
SessionDataOf(k) == IF k = sessionOf[conn] THEN Snapshot ELSE parked[k]

Fresh == [ops |-> NoEntries, res |-> NoEntries, next |-> 1]

(* the handler of connection c runs next, on the SessionData d             *)
Serve(c, d) ==
    /\ conn' = c
    /\ parked' = [k \in (DOMAIN parked \cup {sessionOf[conn]}) \ {d} |->
                    SessionDataOf(k)]

(* a handler that takes the SessionData of the connection served before it *)
(* instead of constructing one                                             *)
Open_Shared(c) ==
    /\ c \notin DOMAIN sessionOf /\ AllIdle /\ ~crashed
    /\ sessionOf' = MapPut(sessionOf, c, sessionOf[conn])
    /\ conn' = c
    /\ UNCHANGED <<session, walk, mu, lk, parked, batch, base, file, metrics>>

(* server.go:25-35 and server.go:63-71: a connection is accepted, or a     *)
(* POST arrives: sessionData := NewSessionData(target), then OnOpen        *)
Open(c) ==
    /\ c \notin DOMAIN sessionOf /\ AllIdle /\ ~crashed
    /\ sessionOf' = MapPut(sessionOf, c, c)
    /\ Serve(c, c)
    /\ NextExportID' = 1
    /\ PendingOperations' = NoEntries
    /\ PendingResults' = NoEntries
    /\ UNCHANGED <<Target, th, crashed, nmsg, pushLog, everKeys, ndisp, log, walk, mu, lk,
                   batch, base, file, metrics>>

(* server.go:37-46, 75-81: the next message to be handled is one of the    *)
(* connection c; HandleMessage is passed c's sessionData                   *)
Deliver(c) ==
    /\ c \in DOMAIN sessionOf /\ c # conn /\ AllIdle /\ ~crashed
    /\ Serve(c, sessionOf[c])
    /\ NextExportID' = SessionDataOf(sessionOf[c]).next
    /\ PendingOperations' = SessionDataOf(sessionOf[c]).ops
    /\ PendingResults' = SessionDataOf(sessionOf[c]).res
    /\ UNCHANGED <<Target, th, crashed, nmsg, pushLog, everKeys, ndisp, log, walk, mu, lk,
                   sessionOf, batch, base, file, metrics>>

NextSessions ==
    \/ \E c \in Conns : Open(c)
    \/ \E c \in Conns : Deliver(c)
    \/ \E m \in SessMsgs : nmsg < MaxSessMsgs /\ HandlePush(Transport, m)
    \/ \E m \in SessMsgs : nmsg < MaxSessMsgs /\ PullBegin(Transport, m)
    \/ \E m \in SessMsgs : nmsg < MaxSessMsgs /\ HandleRelease(Transport, m)
    \/ \E m \in SessMsgs : nmsg < MaxSessMsgs /\ HandleAbort(Transport, m)
    \/ PullCleanup(Transport)
    \/ ResolveRef(Transport)
    \/ DispatchDependency(Transport)
    \/ CacheResult(Transport)
    \/ DispatchPulled(Transport)
    \/ DeleteOperation(Transport)
    \/ StoreResult(Transport)

InitSessions == Init /\ Target = "handlers"

SpecSessions == InitSessions /\ [][NextSessions]_vars

(* C23: a step that handles a message of one connection leaves the         *)
(* NextExportID, PendingOperations and PendingResults of every other       *)
(* connection's session as they were, and a new WebSocket connection or    *)
(* HTTP batch starts with empty tables and NextExportID 1, whatever the    *)
(* sessions before it did.                                                 *)
C23_SessionsIsolated ==
    [][ /\ \A c \in DOMAIN sessionOf :
              c # conn' => SessionDataOf(sessionOf[c])' = SessionDataOf(sessionOf[c])
        /\ conn' \notin DOMAIN sessionOf => Snapshot' = Fresh ]_vars

(* Two sessions have each registered an operation under export id 1, and   *)
(* the two operations differ.                                              *)
C23_Witness ==
    \E c \in DOMAIN sessionOf :
        /\ c # conn /\ sessionOf[c] # sessionOf[conn]
        /\ 1 \in DOMAIN PendingOperations
        /\ 1 \in DOMAIN SessionDataOf(sessionOf[c]).ops
        /\ SessionDataOf(sessionOf[c]).ops[1] # PendingOperations[1]

----------------------------------------------------------------------------
(* The step handles one whole message, from the call of HandleMessage to   *)
(* its return.                                                             *)
HandledInOneStep == nmsg' = nmsg + 1 /\ AllIdle /\ AllIdle' /\ log' # <<>>

(* C25: a step that handles a release or an abort leaves NextExportID,     *)
(* PendingOperations and PendingResults (and the rest of the session) as   *)
(* they were, sends no response and calls no dispatcher, whatever the      *)
(* tables hold; so the messages after it are handled from the same state   *)
(* as if it had not been sent.                                             *)
C25_ReleaseAbortInert ==
    [][ (HandledInOneStep /\ MsgTag(Last.msg)' \in {"release", "abort"}) =>
            /\ UNCHANGED <<NextExportID, PendingOperations, PendingResults,
                           Target, crashed, everKeys, ndisp, pushLog>>
            /\ Last.out' = NoResponse
            /\ Last.calls' = <<>>
            /\ Last.pre' = Snapshot ]_vars

(* An abort arrived while an operation was pending, and the pull after it  *)
(* was answered with the operation's result.                               *)
C25_Witness ==
    /\ Len(log) = 2 /\ AllIdle
    /\ MsgTag(Previous.msg) = "abort"
    /\ Previous.pre.ops # NoEntries
    /\ \E i \in DOMAIN Previous.pre.ops :
          /\ IsPullOf(Last.msg, i)
          /\ Last.out.t = "list" /\ Last.out.l[1] = Str("resolve")

----------------------------------------------------------------------------
(* HandleMessage on texts of any shape (rpc.go:92-148), and the HTTP POST  *)
(* handler that feeds it the lines of a request body (server.go:63-100).   *)
(* A text is the JSON value it parses to, or Garbage when it is no JSON.   *)

Garbage == [t |-> "garbage"]

(* what HandleMessage returns next to "" when it fails                     *)
HandleError(e) == [t |-> "err", e |-> e]

(* rpc.go:93-105: json.Unmarshal into []interface{} fails on a text that   *)
(* is no JSON or whose JSON is no list (JSON null gives the nil slice      *)
(* without an error); then the length and the type of the tag are tested.  *)
(* "" when the message is accepted.                                        *)
DecodeError(x) ==
    IF x.t = "null" THEN "empty message"
    ELSE IF x.t # "list" THEN "invalid message format"
    ELSE IF Len(x.l) = 0 THEN "empty message"
    ELSE IF x.l[1].t # "str" THEN "invalid message type"
    ELSE ""

(* rpc.go:107-147: a decoded message on which HandleMessage calls no       *)
(* handler: the tag is none of the four, or the payload the case tests for *)
(* is missing or of another type.                                          *)
Ignored(msg) ==
    LET messageType == msg[1].s IN
    CASE messageType = "push" -> Len(msg) < 2
      [] messageType = "pull" -> ~(Len(msg) >= 2 /\ msg[2].t = "num")
      [] messageType = "release" ->
            ~(Len(msg) >= 3 /\ msg[2].t = "num" /\ msg[3].t = "num")
      [] messageType = "abort" -> Len(msg) < 2
      [] OTHER -> TRUE

(* the message reaches handlePush, handlePull, handleRelease or handleAbort *)
Accepted(x) == DecodeError(x) = "" /\ ~Ignored(x.l)

\* Mutant: a text that cannot be decoded is dropped without an error.
RejectMessage_Silent(t, x) ==
    /\ Begin(t)
    /\ DecodeError(x) # ""
    /\ nmsg' = nmsg + 1
    /\ Return(t, x, Snapshot, <<>>, NoResponse)
    /\ UNCHANGED <<apart, Target, NextExportID, PendingOperations, PendingResults, crashed,
                   pushLog, everKeys, ndisp>>

(* rpc.go:93-105 *)
RejectMessage(t, x) ==
    /\ Begin(t)
    /\ DecodeError(x) # ""
    /\ nmsg' = nmsg + 1
    /\ Return(t, x, Snapshot, <<>>, HandleError(DecodeError(x)))
    /\ UNCHANGED <<apart, Target, NextExportID, PendingOperations, PendingResults, crashed,
                   pushLog, everKeys, ndisp>>

\* Mutant: a pull without a numeric id is answered as a pull of an unknown id.
IgnoreMessage_Answered(t, m) ==
    /\ Begin(t)
    /\ DecodeError(m) = "" /\ Ignored(m.l)
    /\ nmsg' = nmsg + 1
    /\ Return(t, m, Snapshot, <<>>,
              IF MsgTag(m) = "pull" THEN jsonMarshal(ExportNotFound(0)) ELSE NoResponse)
    /\ UNCHANGED <<apart, Target, NextExportID, PendingOperations, PendingResults, crashed,
                   pushLog, everKeys, ndisp>>

(* rpc.go:107-147, the paths that call no handler *)
IgnoreMessage(t, m) ==
    /\ Begin(t)
    /\ DecodeError(m) = "" /\ Ignored(m.l)
    /\ nmsg' = nmsg + 1
    /\ Return(t, m, Snapshot, <<>>, NoResponse)
    /\ UNCHANGED <<apart, Target, NextExportID, PendingOperations, PendingResults, crashed,
                   pushLog, everKeys, ndisp>>

MaxLines == 3

(* A line of the request body: its text, whether white space surrounds it, *)
(* and whether it is longer than bufio.Scanner's 64 KiB token limit.       *)
Line(text, pad, long) == [text |-> text, pad |-> pad, long |-> long]

Blank == [t |-> "blank"]

(* server.go:76: strings.TrimSpace *)
TrimSpace(line) == line.text

LineFeed == [t |-> "lf"]

(* server.go:98: strings.Join(responses, "\n") *)
RECURSIVE Join(_, _)
Join(responses, sep) ==
    IF Len(responses) = 0 THEN <<>>
    ELSE IF Len(responses) = 1 THEN responses
    ELSE <<responses[1], sep>> \o Join(Tail(responses), sep)

BatchTexts ==
    { Garbage, Num(5), Null, List(<<>>), List(<<Num(1), Str("push")>>),
      List(<<Str("ping"), Num(1)>>),
      List(<<Str("pull"), Str("x")>>), List(<<Str("pull")>>),
      List(<<Str("push")>>),
      List(<<Str("release"), Str("a"), Num(1)>>), List(<<Str("abort")>>),
      List(<<Str("push"), List(<<Str("pipeline"), Num(0), List(<<Str("get")>>)>>)>>),
      List(<<Str("push"), PipelineCall("echo", List(<<PipelineRef(1)>>))>>),
      List(<<Str("pull"), Num(1)>>), List(<<Str("pull"), Num(2)>>),
      List(<<Str("release"), Num(1), Num(1)>>),
      List(<<Str("abort"), Str("bye")>>) }

BatchLines ==
    {Line(x, FALSE, FALSE) : x \in BatchTexts}
    \cup {Line(Blank, TRUE, FALSE), Line(Garbage, FALSE, TRUE)}

Requests == UNION {[1..n -> BatchLines] : n \in 0..MaxLines}

(* server.go:63-72 *)
InitBatch ==
    /\ NewSessionData /\ Target = "handlers"
    /\ walk = NoWalk /\ NoLocks /\ OneConnection /\ NewBaseRpcTarget /\ file = NoFile /\ NewMetricsServer
    /\ batch \in {[NoBatch EXCEPT !.pc = "scan", !.request = r, !.lines = r] :
                    r \in Requests}

Scanning == batch.pc = "scan" /\ batch.lines # <<>> /\ ~crashed

(* server.go:75 and 92-95: the scanner stops at a line over its limit;     *)
(* scanner.Err() is bufio.ErrTooLong                                       *)
ScanTooLong ==
    /\ Scanning
    /\ Head(batch.lines).long
    /\ batch' = [batch EXCEPT !.pc = "done", !.status = 500,
                              !.body = <<Str("Error reading request body")>>]
    /\ UNCHANGED <<session, walk, mu, lk, server, base, file, metrics>>

(* server.go:75-79 *)
SkipBlank ==
    /\ Scanning
    /\ ~Head(batch.lines).long
    /\ TrimSpace(Head(batch.lines)) = Blank
    /\ batch' = [batch EXCEPT !.lines = Tail(@)]
    /\ UNCHANGED <<session, walk, mu, lk, server, base, file, metrics>>

(* server.go:75-81: the line goes to HandleMessage *)
ScanLine ==
    /\ Scanning
    /\ ~Head(batch.lines).long
    /\ TrimSpace(Head(batch.lines)) # Blank
    /\ batch' = [batch EXCEPT !.pc = "handle", !.lines = Tail(@),
                              !.line = TrimSpace(Head(batch.lines)), !.n = nmsg]
    /\ UNCHANGED <<session, walk, mu, lk, server, base, file, metrics>>

(* HandleMessage has not been called yet for the line                      *)
ToHandle == batch.pc = "handle" /\ nmsg = batch.n

(* server.go:81-89: HandleMessage returned; an error is logged, a response *)
(* that is not empty is appended                                           *)
Collect ==
    /\ batch.pc = "handle" /\ nmsg = batch.n + 1 /\ th[Transport].pc = "idle" /\ ~crashed
    /\ LET response == log[Len(log)].out IN
       batch' = [batch EXCEPT
                    !.pc = "scan",
                    !.handled = Append(@, [line |-> batch.line, out |-> response]),
                    !.responses = IF response.t = "err" \/ response = NoResponse
                                  THEN @ ELSE Append(@, response)]
    /\ UNCHANGED <<session, walk, mu, lk, server, base, file, metrics>>

(* server.go:92-99 *)
Respond ==
    /\ batch.pc = "scan" /\ batch.lines = <<>> /\ ~crashed
    /\ batch' = [batch EXCEPT !.pc = "done", !.status = 200,
                              !.body = Join(batch.responses, LineFeed)]
    /\ UNCHANGED <<session, walk, mu, lk, server, base, file, metrics>>

NextBatch ==
    \/ ScanTooLong
    \/ SkipBlank
    \/ ScanLine
    \/ Collect
    \/ Respond
    \/ ToHandle /\ RejectMessage(Transport, batch.line)
    \/ ToHandle /\ IgnoreMessage(Transport, batch.line)
    \/ ToHandle /\ Accepted(batch.line) /\ HandlePush(Transport, batch.line)
    \/ ToHandle /\ Accepted(batch.line) /\ PullBegin(Transport, batch.line)
    \/ ToHandle /\ Accepted(batch.line) /\ HandleRelease(Transport, batch.line)
    \/ ToHandle /\ Accepted(batch.line) /\ HandleAbort(Transport, batch.line)
    \/ PullCleanup(Transport)
    \/ ResolveRef(Transport)
    \/ DispatchDependency(Transport)
    \/ CacheResult(Transport)
    \/ DispatchPulled(Transport)
    \/ DeleteOperation(Transport)
    \/ StoreResult(Transport)

SpecBatch == InitBatch /\ [][NextBatch]_vars

----------------------------------------------------------------------------
SessionUnchanged ==
    UNCHANGED <<NextExportID, PendingOperations, PendingResults, Target, crashed,
                everKeys, ndisp, pushLog>>

IsResolve(out) == out.t = "list" /\ out.l[1] = Str("resolve")

(* C26: a step in which HandleMessage is given a text whose JSON is not a   *)
(* list, is the empty list, or has a first element that is no string       *)
(* (or that is no JSON at all) returns an error and no outbound message,   *)
(* calls no dispatcher and leaves the session state unchanged; and the     *)
(* POST handler, on that error, goes on scanning: it keeps the session,    *)
(* the responses collected so far and the lines still to be read.          *)
C26_InvalidMessageError ==
    [][ /\ (HandledInOneStep /\ DecodeError(Last.msg)' # "") =>
              /\ Last.out' = HandleError(DecodeError(Last.msg'))
              /\ Last.calls' = <<>>
              /\ Last.pre' = Snapshot
              /\ SessionUnchanged
        /\ (batch.pc = "handle" /\ batch' # batch /\ Last.out.t = "err") =>
              /\ batch'.pc = "scan"
              /\ batch'.responses = batch.responses
              /\ batch'.lines = batch.lines
              /\ SessionUnchanged ]_vars

(* A batch whose second line could not be decoded: the line before it      *)
(* registered an operation and the line after it pulled its result.        *)
C26_Witness ==
    /\ batch.pc = "done" /\ batch.status = 200
    /\ Len(batch.handled) = 3
    /\ batch.handled[2].out.t = "err"
    /\ IsResolve(batch.handled[3].out)

(* C27: a step in which HandleMessage is given a list whose tag is a       *)
(* string other than push, pull, release and abort, or a pull without a    *)
(* numeric id, a release without two numeric fields, or a push, pull or    *)
(* abort with no second element, returns no response and no error, calls   *)
(* no dispatcher and leaves NextExportID, PendingOperations and            *)
(* PendingResults unchanged.                                               *)
C27_IgnoredMessage ==
    [][ (HandledInOneStep /\ DecodeError(Last.msg)' = "" /\ Ignored(Last.msg.l)') =>
              /\ Last.out' = NoResponse
              /\ Last.calls' = <<>>
              /\ Last.pre' = Snapshot
              /\ SessionUnchanged ]_vars

(* A pull whose id is a string arrived between the push of an operation    *)
(* and the pull of its result: it got no response and the pull after it    *)
(* was resolved.                                                           *)
C27_Witness ==
    /\ batch.pc = "done" /\ batch.status = 200
    /\ Len(batch.handled) = 3
    /\ batch.handled[2] = [line |-> List(<<Str("pull"), Str("x")>>), out |-> NoResponse]
    /\ IsResolve(batch.handled[3].out)
    /\ Len(batch.body) = 1

----------------------------------------------------------------------------
(* the texts of the lines of a request that are not blank, in line order   *)
NonBlank(request) ==
    LET kept == SelectSeq(request, LAMBDA l : l.text # Blank)
    IN [i \in 1..Len(kept) |-> kept[i].text]

IsPullLine(x) == x.t = "list" /\ Len(x.l) >= 2 /\ x.l[1] = Str("pull") /\ x.l[2].t = "num"

(* the responses to the pull lines among the handled lines, in line order  *)
PullResponses(handled) ==
    LET pulls == SelectSeq(handled, LAMBDA e : IsPullLine(e.line))
    IN [i \in 1..Len(pulls) |-> pulls[i].out]

(* the POST handler has returned, or the process has died under it         *)
BatchOver == batch.pc = "done" \/ (batch.pc # "none" /\ crashed)

BatchAnswered ==
    /\ batch.pc = "done" /\ batch.status = 200
    /\ [i \in 1..Len(batch.handled) |-> batch.handled[i].line] = NonBlank(batch.request)
    /\ \A i \in 1..Len(batch.handled) :
          LET e == batch.handled[i] IN
          IF IsPullLine(e.line) THEN IsResponseFor(e.out, e.line.l[2].n)
          ELSE e.out = NoResponse \/ e.out.t = "err"
    /\ batch.body = Join(PullResponses(batch.handled), LineFeed)

(* C24 as claimed: every HTTP batch request ends with a response whose     *)
(* body is exactly the responses to its pull lines, in line order, joined  *)
(* by single line feeds, every line that is not blank having been handled  *)
(* in order, whatever lines the request holds.                             *)
C24_BatchResponse == BatchOver => BatchAnswered

(* C24, for the requests that are read to their end: when the handler      *)
(* answers with status 200 the body is the responses to the pull lines, in *)
(* line order, joined by line feeds, and every non-blank line was handled. *)
C24_ReadBatchResponse == (batch.pc = "done" /\ batch.status = 200) => BatchAnswered

----------------------------------------------------------------------------
(* ["pipeline", <importId:number>, <non-empty methodPath whose first       *)
(* element is a string>, <args>?]                                          *)
IsPipelineCallBody(body) ==
    /\ body.t = "list" /\ Len(body.l) \in {3, 4}
    /\ body.l[1] = Str("pipeline")
    /\ body.l[2].t = "num"
    /\ body.l[3].t = "list" /\ body.l[3].l # <<>> /\ body.l[3].l[1].t = "str"

PushStep == HandledInOneStep /\ MsgTag(Last.msg)' = "push"

NoResponseNoDispatch == Last.out' = NoResponse /\ Last.calls' = <<>> /\ UNCHANGED ndisp

GivenArgs(body) == IF Len(body.l) = 4 THEN body.l[4] ELSE List(<<>>)

(* a recognized push registers exactly its operation under the new id      *)
RegistersCall(body) ==
    /\ NextExportID' = NextExportID + 1
    /\ PendingOperations' =
          MapPut(PendingOperations, NextExportID,
                 [Method |-> body.l[3].l[1].s, Args |-> GivenArgs(body)])
    /\ NextExportID \notin DOMAIN PendingOperations
    /\ UNCHANGED PendingResults
    /\ NoResponseNoDispatch

----------------------------------------------------------------------------
(* SpecBase: a session whose target is a BaseRpcTarget.  Handlers are      *)
(* registered with Method at any time, also between the push and the pull  *)
(* of an operation and while a pull is being handled.                      *)

MaxBaseMsgs == 4
MaxRegs == 2

MethodNames == {"get", "echo"}

BaseBodies ==
    { List(<<Str("pipeline"), Num(0), List(<<Str("get")>>)>>),
      PipelineCall("echo", List(<<PipelineRef(1)>>)) }

BaseMsgs == MsgsOf(BaseBodies)

(* rpc.go:36-40: BaseRpcTarget.Method *)
Method(name, handler) ==
    /\ Len(regs) < MaxRegs
    /\ methods' = MapPut(methods, name, handler)
    /\ regs' = Append(regs, [name |-> name, handler |-> handler])
    /\ UNCHANGED <<session, walk, mu, lk, server, batch, file, metrics>>

NextBase ==
    \/ \E name \in MethodNames, handler \in Handlers : Method(name, handler)
    \/ \E m \in BaseMsgs : nmsg < MaxBaseMsgs /\ HandlePush(Transport, m)
    \/ \E m \in BaseMsgs : nmsg < MaxBaseMsgs /\ PullBegin(Transport, m)
    \/ \E m \in BaseMsgs : nmsg < MaxBaseMsgs /\ HandleRelease(Transport, m)
    \/ \E m \in BaseMsgs : nmsg < MaxBaseMsgs /\ HandleAbort(Transport, m)
    \/ PullCleanup(Transport)
    \/ ResolveRef(Transport)
    \/ DispatchDependency(Transport)
    \/ CacheResult(Transport)
    \/ DispatchPulled(Transport)
    \/ DeleteOperation(Transport)
    \/ StoreResult(Transport)

InitBase == NewSessionDataOf({"BaseRpcTarget"}) /\ Elsewhere

SpecBase == InitBase /\ [][NextBase]_vars

(* the handler that the latest registration of the name gave, if any       *)
RECURSIVE LatestHandler(_, _)
LatestHandler(rs, name) ==
    IF rs = <<>> THEN "none"
    ELSE IF rs[Len(rs)].name = name THEN rs[Len(rs)].handler
    ELSE LatestHandler(SubSeq(rs, 1, Len(rs) - 1), name)

(* the dispatcher calls made so far by the handler that is running, or by  *)
(* the one that has just returned                                          *)
CallsOf(t) == IF th[t].pc = "idle" THEN Last.calls ELSE th[t].calls

NotFound(method) == "method not found: " \o method

(* the step is the return of a pull whose own dispatch found no handler    *)
ReturnsNotFound(i) ==
    /\ th[Transport].pc = "delop" /\ th'[Transport].pc = "idle"
    /\ th[Transport].exportID = i
    /\ th[Transport].result = Err(NotFound(PendingOperations[i].Method))

(* C29: with a BaseRpcTarget, every call of the dispatcher is answered by  *)
(* the handler that the latest registration of the method's name gave at   *)
(* the moment of the call (so a later registration replaces an earlier     *)
(* one, and what was registered when the operation was pushed does not     *)
(* count), and by the error "method not found: <name>" when the name was   *)
(* never registered; and a pull whose own dispatch ends with that error is *)
(* answered reject with kind MethodError and that message, and its         *)
(* operation is no longer in PendingOperations (nor in PendingResults).    *)
C29_MethodNotFound ==
    [][ /\ \A id \in DispatchedNow :
              LET c == CallsOf(Transport)'[Len(CallsOf(Transport)')]
                  h == LatestHandler(regs, c.method)
              IN /\ c.id = id
                 /\ c.out = IF h = "none" THEN Err(NotFound(c.method)) ELSE Ok(Str(h))
        /\ \A i \in PullIds :
              ReturnsNotFound(i) =>
                 /\ Last.out' = Reject(i, "MethodError", NotFound(PendingOperations[i].Method))
                 /\ i \notin DOMAIN PendingOperations'
                 /\ i \notin DOMAIN PendingResults' ]_vars

(* A pull was rejected because its method had no handler, and the next     *)
(* pull was answered by the handler that replaced the one registered       *)
(* first for its method.                                                   *)
C29_Witness ==
    /\ AllIdle /\ Len(log) = 2
    /\ \E i \in PullIds :
          /\ IsPullOf(Previous.msg, i)
          /\ Previous.out = Reject(i, "MethodError", NotFound("echo"))
    /\ regs = <<[name |-> "get", handler |-> "h1"], [name |-> "get", handler |-> "h2"]>>
    /\ IsPullOf(Last.msg, 1)
    /\ Last.out = List(<<Str("resolve"), Num(1), Str("h2")>>)

----------------------------------------------------------------------------
(* SpecFile: the static file handler of SetupFileEndpoint                  *)
(* (fileserver.go:25-103).  A name is a sequence of characters, a path a   *)
(* sequence of names, and the string of a path is its names with a "/"     *)
(* before each; the request is the part of the URL path after the base     *)
(* path, and whether it ends with a "/".                                   *)

MaxSegs == 3

DotDot == <<".", ".">>
IndexHtml == <<"i">>

FileNames == {<<"a">>, <<"a", "b">>, <<"x">>, DotDot}

fsRoot == << <<"r">>, <<"a">> >>

RECURSIVE PathsUpTo(_)
PathsUpTo(n) ==
    IF n = 0 THEN {<<>>}
    ELSE PathsUpTo(n - 1) \cup
         {Append(p, s) : p \in {q \in PathsUpTo(n - 1) : Len(q) = n - 1}, s \in FileNames}

(* path.Clean / filepath.Clean on a path without "." and empty names: a    *)
(* ".." removes the name before it; at the root it is dropped, at the      *)
(* start of a relative path it stays.                                      *)
RECURSIVE Clean(_, _, _)
Clean(out, segs, rooted) ==
    IF segs = <<>> THEN out
    ELSE IF Head(segs) # DotDot THEN Clean(Append(out, Head(segs)), Tail(segs), rooted)
    ELSE IF out # <<>> /\ out[Len(out)] # DotDot
         THEN Clean(SubSeq(out, 1, Len(out) - 1), Tail(segs), rooted)
    ELSE IF rooted THEN Clean(out, Tail(segs), rooted)
    ELSE Clean(Append(out, DotDot), Tail(segs), rooted)

(* the string of an absolute path                                          *)
RECURSIVE PathString(_)
PathString(p) ==
    IF p = <<>> THEN <<>> ELSE <<"/">> \o Head(p) \o PathString(Tail(p))

(* strings.HasPrefix *)
HasPrefix(s, prefix) == Len(s) >= Len(prefix) /\ SubSeq(s, 1, Len(prefix)) = prefix

(* fileserver.go:39-42 *)
FilePath(segs, dir) ==
    IF segs = <<>> \/ dir THEN Clean(<<>>, Append(segs, IndexHtml), FALSE) ELSE segs

(* fileserver.go:45 and 54: filepath.Join cleans, filepath.Abs of an       *)
(* absolute path cleans again                                              *)
AbsPath(segs, dir) == Clean(<<>>, Clean(<<>>, fsRoot \o FilePath(segs, dir), TRUE), TRUE)

(* fileserver.go:48 *)
AbsRoot == Clean(<<>>, fsRoot, TRUE)

(* The files on the disk: in every directory the names x and index.html    *)
(* are regular files, every other path is a directory.                     *)
IsRegular(p) == p # <<>> /\ p[Len(p)] \in {<<"x">>, IndexHtml}

(* fileserver.go:61 *)
AccessDenied(absPath, absRoot) == ~HasPrefix(PathString(absPath), PathString(absRoot))

(* fileserver.go:25-103 *)
ServeFile ==
    /\ file.pc = "request"
    /\ LET absPath == AbsPath(file.segs, file.dir) IN
       file' = [file EXCEPT
                  !.pc = "done",
                  !.status = IF AccessDenied(absPath, AbsRoot) THEN 403
                             ELSE IF ~IsRegular(absPath) THEN 404
                             ELSE 200,
                  !.read = IF ~AccessDenied(absPath, AbsRoot) /\ IsRegular(absPath)
                           THEN absPath ELSE <<>>]
    /\ UNCHANGED <<session, walk, mu, lk, server, batch, base, metrics>>

NextFile == ServeFile

InitFile ==
    /\ NewSessionDataOf({"handlers"})
    /\ walk = NoWalk /\ NoLocks /\ OneConnection /\ batch = NoBatch /\ NewBaseRpcTarget
    /\ NewMetricsServer
    /\ file \in {[NoFile EXCEPT !.pc = "request", !.segs = p, !.dir = d] :
                    p \in PathsUpTo(MaxSegs), d \in BOOLEAN}

SpecFile == InitFile /\ [][NextFile]_vars

(* the path is fsRoot or lies below it                                     *)
InsideRoot(p) == Len(p) >= Len(AbsRoot) /\ SubSeq(p, 1, Len(AbsRoot)) = AbsRoot

(* C30 as claimed: the handler reads a file only when the cleaned absolute *)
(* path of the request is fsRoot or below it, and every request whose      *)
(* resolved path is outside fsRoot, a sibling directory whose name starts  *)
(* with fsRoot's name included, is answered 403 with no file read.         *)
C30_OnlyInsideRoot ==
    file.pc = "done" =>
       LET p == AbsPath(file.segs, file.dir) IN
       /\ file.read # <<>> => InsideRoot(file.read)
       /\ ~InsideRoot(p) => (file.status = 403 /\ file.read = <<>>)
----------------------------------------------------------------------------
(* Handler t is inside a pull and has had a successful Target.Dispatch of  *)
(* operation id (rpc.go:246 or rpc.go:376).                                *)
HasDispatched(t, id) ==
    \E n \in 1..Len(th[t].calls) : th[t].calls[n].id = id /\ th[t].calls[n].out.ok

(* C31 as claimed: with concurrent handlers on one SessionData, the        *)
(* dispatcher is invoked at most once for each export id: no two handlers  *)
(* have each dispatched the same operation.                                *)
C31_DispatchedOnceConcurrently ==
    \A t, u \in Threads : \A id \in PullIds :
        t # u => ~(HasDispatched(t, id) /\ HasDispatched(u, id))

(* The pull of log entry e was answered from the stored value of i.        *)
AnsweredFromStored(e, i) ==
    /\ IsPullOf(e.msg, i)
    /\ i \in DOMAIN e.pre.res
    /\ e.out = jsonMarshal(CachedResponse(i, e.pre.res[i]))

(* C32 as claimed: when two pull(i) are handled concurrently and i is in   *)
(* PendingResults, the stored value is taken once: the two pulls are not   *)
(* both answered from the one stored value.                                *)
C32_ResultTakenOnce ==
    \A i \in PullIds :
        ~ /\ Len(log) >= 2
          /\ AnsweredFromStored(Previous, i) /\ AnsweredFromStored(Last, i)
          /\ Previous.pre.res = Last.pre.res
          /\ ndisp[i] = 1

----------------------------------------------------------------------------
(* SpecOrder: one HTTP batch of k pushes followed by one pull of each of   *)
(* the k ids, in any order, handled by the POST loop (server.go:63-100).   *)
(* The target is a BaseRpcTarget whose methods were registered when it was *)
(* built, as the examples do (helloworld/main.go:17-37), so that every     *)
(* dispatcher call succeeds and returns the value of its handler.          *)

MaxOrderPush == 3   \* operations pushed in one batch

(* an operation without references, and operations that take the whole    *)
(* result of an earlier operation                                          *)
OrderBodies ==
    {PipelineCall("get", List(<<>>))}
    \cup {PipelineCall("echo", List(<<PipelineRef(j)>>)) : j \in 1..(MaxOrderPush - 1)}

PullOrders(k) == {p \in [1..k -> 1..k] : \A a, b \in 1..k : a # b => p[a] # p[b]}

OrderRequests ==
    UNION {{[n \in 1..(2 * k) |->
               Line(IF n <= k THEN List(<<Str("push"), bodies[n]>>)
                    ELSE List(<<Str("pull"), Num(p[n - k])>>), FALSE, FALSE)] :
              bodies \in [1..k -> OrderBodies], p \in PullOrders(k)} :
           k \in 1..MaxOrderPush}

(* helloworld/main.go:17-37: the methods are registered by the constructor *)
Registered ==
    /\ methods = [name \in {"get", "echo"} |-> IF name = "get" THEN "h1" ELSE "h2"]
    /\ regs = <<[name |-> "get", handler |-> "h1"], [name |-> "echo", handler |-> "h2"]>>

(* server.go:63-72 *)
InitOrder ==
    /\ NewSessionDataOf({"BaseRpcTarget"})
    /\ walk = NoWalk /\ NoLocks /\ OneConnection /\ Registered /\ file = NoFile /\ NewMetricsServer
    /\ batch \in {[NoBatch EXCEPT !.pc = "scan", !.request = r, !.lines = r] :
                    r \in OrderRequests}

NextOrder ==
    \/ ScanLine
    \/ Collect
    \/ Respond
    \/ ToHandle /\ Accepted(batch.line) /\ handlePush(Transport, batch.line)
    \/ ToHandle /\ Accepted(batch.line) /\ PullBegin(Transport, batch.line)
    \/ PullCleanup(Transport)
    \/ ResolveRef(Transport)
    \/ DispatchDependency(Transport)
    \/ CacheResult(Transport)
    \/ DispatchPulled(Transport)
    \/ DeleteOperation(Transport)
    \/ StoreResult(Transport)

SpecOrder == InitOrder /\ [][NextOrder]_vars

(* the n-th line of the request pushes an operation all of whose pipeline  *)
(* references target an operation pushed by an earlier line                *)
RefersBack(request, n) ==
    \A r \in RefsIn(request[n].text.l[2].l[4]) : r.l[2].n \in 1..(n - 1)

(* the number of pushes of the request                                     *)
Pushed(request) == Len(request) \div 2

(* the value the handler of the method pushed by the n-th line returns     *)
ValueOf(request, n) == Str(methods[request[n].text.l[2].l[3].l[1].s])

(* C33 as claimed: when every reference of a batch of k pushes targets an  *)
(* earlier push and every dispatcher call succeeds, pulling each of the k  *)
(* ids once yields k resolves with the values of the operations, whatever  *)
(* the order of the pulls.                                                 *)
C33_AnyPullOrderResolves ==
    (/\ batch.pc = "done"
     /\ \A n \in 1..Pushed(batch.request) : RefersBack(batch.request, n))
        => \A n \in 1..Len(batch.handled) :
             LET e == batch.handled[n] IN
             IsPullLine(e.line) =>
                e.out = ResolveResponse(e.line.l[2].n, ValueOf(batch.request, e.line.l[2].n))

----------------------------------------------------------------------------
(* The pull of log entry e evaluated operation j as a dependency, the      *)
(* dispatcher returning r (rpc.go:246).                                    *)
EvaluatedAsDependency(e, j, r) ==
    \E n \in 1..Len(e.calls) :
        e.calls[n].id = j /\ e.calls[n].dep /\ e.calls[n].out = Ok(r)

(* What a pull(j) that dispatches j itself answers when the dispatcher     *)
(* returns r (rpc.go:387-396).                                             *)
PendingPathResponse(j, r) == jsonMarshal(ResolveResponse(j, r))

(* C34 as claimed: the first pull(j) of an operation that was evaluated as *)
(* a dependency of the pull before it, the dispatcher having returned r,   *)
(* is answered from PendingResults with the response that a pull(j)        *)
(* dispatching j itself gives for r: same tag, same payload.               *)
C34_SameResponseOnBothPaths ==
    \A j \in PullIds :
        (/\ AllIdle /\ Len(log) >= 2
         /\ IsPullOf(Last.msg, j)
         /\ j \in DOMAIN Last.pre.res
         /\ EvaluatedAsDependency(Previous, j, Last.pre.res[j]))
            => Last.out = PendingPathResponse(j, Last.pre.res[j])

(* The last message was a pull of j that found j stored, the pull before   *)
(* it having evaluated j as a dependency.                                  *)
PulledAfterDependency(j) ==
    /\ AllIdle /\ Len(log) >= 2
    /\ IsPullOf(Last.msg, j)
    /\ j \in DOMAIN Last.pre.res
    /\ EvaluatedAsDependency(Previous, j, Last.pre.res[j])

(* C34, for the values that are not error values: a pull(j) that           *)
(* dispatches j itself answers the dispatcher's result r with a resolve    *)
(* (a list escaped), and the first pull(j) after j was evaluated as a      *)
(* dependency answers the same r with the same resolve unless r is a list  *)
(* of two or more elements whose first is "error", which it answers with   *)
(* ["reject", j, r].                                                       *)
C34_SameResponseUnlessErrorValue ==
    \A j \in PullIds :
        /\ (LastIsPull(j) /\ OwnDispatch(Last, j) /\ OwnResult(Last).ok)
              => Last.out = PendingPathResponse(j, OwnResult(Last).v)
        /\ PulledAfterDependency(j)
              => Last.out = IF IsErrorValue(Last.pre.res[j])
                            THEN jsonMarshal(List(<<Str("reject"), Num(j), Last.pre.res[j]>>))
                            ELSE PendingPathResponse(j, Last.pre.res[j])

(* A list that is no error value was evaluated as a dependency and then    *)
(* pulled: the pull was answered with a resolve.                           *)
C34_Witness ==
    \E j \in PullIds :
        /\ PulledAfterDependency(j)
        /\ Last.pre.res[j].t = "list" /\ ~IsErrorValue(Last.pre.res[j])
        /\ IsResolve(Last.out)

----------------------------------------------------------------------------
(* The step in which the transport's handler caches the result of the      *)
(* dependency it has just dispatched (rpc.go:251-264).                     *)
CachesDependency == th[Transport].pc = "cache" /\ th'[Transport].pc # "cache"

(* The step in which a pull(j) that found j stored deletes it and answers  *)
(* (rpc.go:334-352).                                                       *)
AnswersStored(j) ==
    th[Transport].pc = "cleanup" /\ th[Transport].exportID = j /\ th'[Transport].pc = "idle"

(* C35: in a serially handled session, the result r of an operation j that *)
(* is evaluated as a dependency of a pull is stored under j, and the value *)
(* put into the args of the referencing operation is r walked along the    *)
(* reference's path; the entry of j stays in PendingResults with the same  *)
(* value until a pull(j); and that pull is answered from r, without a call *)
(* of the dispatcher.                                                      *)
C35_DependencyResultKept ==
    [][ /\ CachesDependency =>
              LET f == Top(Transport)
                  depth == Len(th[Transport].frames)
                  parent == th[Transport].frames[depth - 1]
                  call == th[Transport].calls[Len(th[Transport].calls)]
                  r == call.out.v
              IN /\ call.id = f.id /\ call.dep /\ call.out.ok
                 /\ f.id \in DOMAIN PendingResults' /\ PendingResults'[f.id] = r
                 /\ th'[Transport].pc = "resolve" =>
                       /\ WalkRefPath(f.ref, r).ok
                       /\ NodeAt(th'[Transport].frames[depth - 1].cur, parent.order[parent.k])
                             = WalkRefPath(f.ref, r).v
        /\ \A j \in DOMAIN PendingResults :
              \/ j \in DOMAIN PendingResults' /\ PendingResults'[j] = PendingResults[j]
              \/ AnswersStored(j)
        /\ \A j \in DOMAIN PendingResults :
              AnswersStored(j) =>
                 /\ j \notin DOMAIN PendingResults'
                 /\ Last.out' = jsonMarshal(CachedResponse(j, PendingResults[j]))
                 /\ Last.calls' = <<>>
                 /\ UNCHANGED ndisp
        /\ (th[Transport].pc = "idle" /\ th'[Transport].pc = "cleanup") =>
              /\ th'[Transport].exportID \in DOMAIN PendingResults
              /\ th'[Transport].result = Ok(PendingResults[th'[Transport].exportID])
              /\ UNCHANGED <<ndisp, PendingResults>> ]_vars

(* Operation j was evaluated as a dependency of a pull that resolved, and  *)
(* the next message, a pull of j, was answered from the stored result      *)
(* without a dispatcher call and took it out of PendingResults.            *)
C35_Witness ==
    \E j \in PullIds :
        /\ PulledAfterDependency(j)
        /\ IsResolve(Previous.out)
        /\ Last.calls = <<>>
        /\ Last.out = jsonMarshal(CachedResponse(j, Last.pre.res[j]))
        /\ j \notin DOMAIN PendingResults

----------------------------------------------------------------------------
(* The positions at which a goroutine asks for the mutex: Lock at          *)
(* rpc.go:171, 252, 335, 379 and 388, RLock at rpc.go:212 and 329 (a       *)
(* goroutine at "idle" is about to enter handlePush or handlePull, one at  *)
(* "204" is about to look at a value that may be a reference).             *)
AsksForLock(t) == lk[t].pc \in {"idle", "204", "252", "335", "379", "388"}

Returned(t) == lk[t].pc = "idle"

(* what the goroutines hold of the mutex, added up                         *)
RECURSIVE ReadersAmong(_)
ReadersAmong(ts) ==
    IF ts = {} THEN 0
    ELSE LET t == CHOOSE x \in ts : TRUE IN lk[t].r + ReadersAmong(ts \ {t})

(* C36: every path through handlePush, handlePull and                      *)
(* resolvePipelineReferences, error returns at any depth included, has     *)
(* released what it took of the session mutex when it returns; a goroutine *)
(* that asks for the write lock or the read lock holds neither at that     *)
(* moment, so it never waits for itself; the mutex counts exactly what the *)
(* goroutines inside the handlers hold, and it is free when none is        *)
(* inside.                                                                 *)
C36_LocksReleased ==
    /\ \A t \in Threads : Returned(t) => ~HoldsLock(t)
    /\ \A t \in Threads : AsksForLock(t) => ~HoldsLock(t)
    /\ \A t \in Threads : lk[t].r \in {0, 1} /\ ~(lk[t].w /\ lk[t].r > 0)
    /\ mu.readers = ReadersAmong(Threads)
    /\ mu.writer = (\E t \in Threads : lk[t].w)
    /\ (\A t \in Threads : Returned(t)) => mu = Unlocked

(* A goroutine got an error back from a nested resolvePipelineReferences   *)
(* call and holds nothing, while the other goroutine holds the write lock. *)
C36_Witness ==
    \E t, u \in Threads :
        /\ t # u
        /\ lk[t].err /\ lk[t].pc \in {"236", "276"} /\ Len(lk[t].stack) >= 1
        /\ ~HoldsLock(t)
        /\ lk[u].w /\ mu.writer

----------------------------------------------------------------------------
(* SpecMetrics: the MetricsServer of the server-push example               *)
(* (examples/serverpush/main.go).  Its three RPC methods run on the        *)
(* goroutines of the connections and bufferMetricsUpdate on the background *)
(* goroutine of generateSystemMetrics; each touches subscribers and        *)
(* metricsBuffer inside one hold of MetricsServer.mu (Lock), so each is    *)
(* one action.  The clock counts seconds, one metrics tick per second; an  *)
(* update is named by its Timestamp.  subscribeSystemMetrics reads the     *)
(* clock before it takes the lock (main.go:77-82), so the LastPull it      *)
(* stores may be the second before the one of the last tick.               *)

MaxTicks == 32      \* metrics ticks of the background goroutine

BufferLimit == 30   \* main.go:206: updates kept per subscription

(* the ids generateID can return; it draws them at random, so an id can    *)
(* come back                                                               *)
SubscriptionIds == {"s1", "s2"}

(* the args of unsubscribe and pollMetricsUpdates: no id, or one id        *)
MetricsArgs == {<<>>} \cup {<<id>> : id \in SubscriptionIds}

(* a call of a method, the id it was about, and whether the subscription   *)
(* was found                                                               *)
Served(op, id, found) == [op |-> op, id |-> id, found |-> found]

(* main.go:73-97 *)
subscribeSystemMetrics(subscriptionID) ==
    /\ \E lastPull \in {now} \cup (IF now > 0 THEN {now - 1} ELSE {}) :
          subscribers' = MapPut(subscribers, subscriptionID,
                                [ID |-> subscriptionID, LastPull |-> lastPull])
    /\ metricsBuffer' = MapPut(metricsBuffer, subscriptionID, <<>>)
    /\ served' = Served("subscribeSystemMetrics", subscriptionID, TRUE)
    /\ UNCHANGED <<session, walk, mu, lk, server, batch, base, file, now>>

(* main.go:99-127 *)
unsubscribe(argArray) ==
    /\ IF Len(argArray) = 0
       THEN /\ served' = Served("unsubscribe", "", FALSE)
            /\ UNCHANGED <<subscribers, metricsBuffer>>
       ELSE LET subscriptionID == argArray[1] IN
            IF subscriptionID \in DOMAIN subscribers
            THEN /\ subscribers' = MapDelete(subscribers, subscriptionID)
                 /\ metricsBuffer' = MapDelete(metricsBuffer, subscriptionID)
                 /\ served' = Served("unsubscribe", subscriptionID, TRUE)
            ELSE /\ served' = Served("unsubscribe", subscriptionID, FALSE)
                 /\ UNCHANGED <<subscribers, metricsBuffer>>
    /\ UNCHANGED <<session, walk, mu, lk, server, batch, base, file, now>>

(* main.go:152: the buffer of the polled subscription is replaced by an    *)
(* empty one                                                               *)
Polled(buffers, subscriptionID) == [buffers EXCEPT ![subscriptionID] = <<>>]

(* main.go:129-177 *)
pollMetricsUpdates(argArray) ==
    /\ IF Len(argArray) = 0
       THEN /\ served' = Served("pollMetricsUpdates", "", FALSE)
            /\ UNCHANGED <<subscribers, metricsBuffer>>
       ELSE LET subscriptionID == argArray[1] IN
            IF subscriptionID \notin DOMAIN subscribers
            THEN /\ served' = Served("pollMetricsUpdates", subscriptionID, FALSE)
                 /\ UNCHANGED <<subscribers, metricsBuffer>>
            ELSE /\ metricsBuffer' = Polled(metricsBuffer, subscriptionID)
                 /\ subscribers' = [subscribers EXCEPT ![subscriptionID].LastPull = now]
                 /\ served' = Served("pollMetricsUpdates", subscriptionID, TRUE)
    /\ UNCHANGED <<session, walk, mu, lk, server, batch, base, file, now>>

\* Mutant: a full buffer keeps its oldest updates.
Trimmed_Oldest(buffer) ==
    IF Len(buffer) > BufferLimit THEN SubSeq(buffer, 1, BufferLimit) ELSE buffer

(* main.go:206-208: keep only the last 30 updates                          *)
Trimmed(buffer) ==
    IF Len(buffer) > BufferLimit
    THEN SubSeq(buffer, Len(buffer) - BufferLimit + 1, Len(buffer))
    ELSE buffer

(* main.go:179-211: one tick of generateSystemMetrics: the update of this  *)
(* second goes to the buffer of every subscriber                           *)
bufferMetricsUpdate ==
    /\ now < MaxTicks
    /\ now' = now + 1
    /\ LET update == now + 1 IN
       metricsBuffer' =
           [subscriptionID \in DOMAIN metricsBuffer |->
               IF subscriptionID \in DOMAIN subscribers
               THEN Trimmed(Append(metricsBuffer[subscriptionID], update))
               ELSE metricsBuffer[subscriptionID]]
    /\ UNCHANGED <<session, walk, mu, lk, server, batch, base, file, subscribers, served>>

NextMetrics ==
    \/ \E subscriptionID \in SubscriptionIds : subscribeSystemMetrics(subscriptionID)
    \/ \E argArray \in MetricsArgs : unsubscribe(argArray)
    \/ \E argArray \in MetricsArgs : pollMetricsUpdates(argArray)
    \/ bufferMetricsUpdate

SpecMetrics == Init /\ [][NextMetrics]_vars

(* the k most recent updates, oldest first                                 *)
MostRecent(k) == [n \in 1..k |-> now - k + n]

(* a step in which the background goroutine buffers the update of a new    *)
(* second                                                                  *)
Ticked == now' = now + 1

Min(a, b) == IF a < b THEN a ELSE b

(* a step in which pollMetricsUpdates answered for an active subscription  *)
PollAnswered(id) ==
    /\ <<served, subscribers, metricsBuffer>>' # <<served, subscribers, metricsBuffer>>
    /\ now' = now
    /\ served' = Served("pollMetricsUpdates", id, TRUE)

(* C37: under every interleaving of subscribeSystemMetrics, unsubscribe,   *)
(* pollMetricsUpdates and the metrics tick, metricsBuffer has exactly the  *)
(* keys of subscribers; every buffer holds at most 30 updates, which are   *)
(* the most recent ones in arrival order, a tick adding the new update to  *)
(* every buffer and dropping only the oldest of a full one; and a poll of  *)
(* an active subscription empties the buffer of that subscription and      *)
(* changes no other buffer and no subscription's presence.                 *)
C37_BuffersFollowSubscribers ==
    /\ [](/\ DOMAIN metricsBuffer = DOMAIN subscribers
          /\ \A id \in DOMAIN subscribers :
                /\ Len(metricsBuffer[id]) <= BufferLimit
                /\ metricsBuffer[id] = MostRecent(Len(metricsBuffer[id])))
    /\ [][Ticked =>
             /\ DOMAIN metricsBuffer' = DOMAIN metricsBuffer
             /\ \A id \in DOMAIN metricsBuffer :
                   Len(metricsBuffer'[id]) = Min(Len(metricsBuffer[id]) + 1, BufferLimit)]_vars
    /\ [][\A id \in SubscriptionIds :
             PollAnswered(id) =>
                /\ id \in DOMAIN subscribers
                /\ subscribers'[id].LastPull = now
                /\ metricsBuffer'[id] = <<>>
                /\ DOMAIN metricsBuffer' = DOMAIN metricsBuffer
                /\ DOMAIN subscribers' = DOMAIN subscribers
                /\ \A other \in DOMAIN metricsBuffer \ {id} :
                      metricsBuffer'[other] = metricsBuffer[other]]_vars

(* One subscription has just been polled and its buffer is empty, while    *)
(* the other has gone unpolled for more than 30 seconds and holds the last *)
(* 30 updates.                                                             *)
C37_Witness ==
    \E id, other \in DOMAIN subscribers :
        /\ id # other
        /\ served = Served("pollMetricsUpdates", id, TRUE)
        /\ subscribers[id].LastPull = now
        /\ metricsBuffer[id] = <<>>
        /\ subscribers[other].LastPull = 0
        /\ now > BufferLimit
        /\ Len(metricsBuffer[other]) = BufferLimit
        /\ metricsBuffer[other][1] = now - BufferLimit + 1

====
